---- MODULE Spec2Model ----
(***************************************************************************)
(* Rake ingestion service: the in-memory job store (api/routes.py), the    *)
(* background runner _run_pipeline_job, the cancel handler, and the        *)
(* five-stage PipelineOrchestrator.run (pipeline/orchestrator.py) with the *)
(* fetch retry loop (sources/base.py) and embedding batching               *)
(* (services/embedding_service.py, pipeline/embed.py).                     *)
(*                                                                         *)
(* Scheduling.  Handlers and runners are coroutines on one asyncio event   *)
(* loop.  _job_store_lock is only ever held over synchronous code, so      *)
(* `async with _job_store_lock` never suspends; a request handler          *)
(* therefore runs to completion as one step, and a runner step extends     *)
(* from one suspending await (adapter I/O, provider call, telemetry or     *)
(* vector-store request inside a stage) to the next.                       *)
(*                                                                         *)
(* Two specifications describe the service:                                *)
(*   SpecWired  the service as wired: _run_pipeline_job first evaluates    *)
(*              PipelineOrchestrator(), whose FetchStage() constructor     *)
(*              reads DocumentSource.SEC_EDGAR, which the enum lacks;      *)
(*   Spec       the runner from its try block on, holding an orchestrator  *)
(*              whose five stages exist (PipelineOrchestrator accepts      *)
(*              each stage as a constructor argument) and whose fetch      *)
(*              stage resolves the adapters of its registry.               *)
(* SpecSubmit is SpecWired under submissions of every source kind the      *)
(* handler validates.  Further specifications study one component each, on *)
(* its own state: SpecRetry the retry loops, SpecSink the telemetry emit   *)
(* calls, SpecEmbed and SpecStore one call of the embed and of the store   *)
(* stage, SpecLock the accesses to the job map, SpecWorkers the background *)
(* tasks, SpecStartup the lifespan start, SpecListing the two job listings,*)
(* SpecQuery and SpecScrape one fetch of the database-query and of the     *)
(* URL-scrape adapter, SpecTrace the correlation id of one request,        *)
(* SpecChunk, SpecClean and SpecHybrid one call of the chunk stage, of the *)
(* clean stage and of the hybrid chunker, SpecProvider the requests of one *)
(* generate_embeddings, SpecCrawl and SpecLimiter the page requests of a   *)
(* retried scrape and their spacing in time.  SpecGet is Spec with the GET *)
(* handler, SpecScheduled is Spec beside the executions of a scheduled job.*)
(***************************************************************************)
EXTENDS Integers, Sequences, FiniteSets, TLC

\* ------------------------------------------------------------------ bounds
MaxJobs == 2
MaxChunks == 2
BatchSize == 1

\* ------------------------------------------------------- program constants
FetchMaxAttempts == 3

JobIds == 1..MaxJobs

\* Optional values: None is the empty tuple, a present value x is <<x>>.
None == <<>>
Some(x) == <<x>>

\* ------------------------------------------------------------ enumerations
\* models/document.py DocumentSource: member name -> value.
DocumentSource ==
    [FILE_UPLOAD |-> "file_upload", URL_SCRAPE |-> "url_scrape",
     API_FETCH |-> "api_fetch", DATABASE_QUERY |-> "database_query",
     SCHEDULED_JOB |-> "scheduled_job"]

DocumentSourceValues == {DocumentSource[n] : n \in DOMAIN DocumentSource}

\* The member names FetchStage.__init__ reads to key its adapter registry.
FetchStageRegistryNames == {"FILE_UPLOAD", "SEC_EDGAR", "URL_SCRAPE", "API_FETCH"}

\* FetchStage.__init__ raises AttributeError iff one of those names is no
\* member of DocumentSource.
FetchStageInitRaises == \E n \in FetchStageRegistryNames : n \notin DOMAIN DocumentSource

\* The registry keys of a constructed FetchStage (stage.adapters).
FetchStageAdapters == {"file_upload", "sec_edgar", "url_scrape", "api_fetch"}

\* Source kinds a client submits in the model: a registered kind, an enum
\* member without adapter, and a string that is no enum member.
Sources == {"file_upload", "database_query", "rss_feed"}

StageNames == <<"fetch", "clean", "chunk", "embed", "store">>

\* ProcessingStatus set by the orchestrator when it enters stage k.
StageStatus == <<"fetching", "cleaning", "chunking", "embedding", "storing">>

TerminalStatuses == {"completed", "failed", "cancelled"}

VARIABLES
    job_store,   \* routes._job_store: job id -> record, or NoJob when absent
    pc,          \* position of the background task of each job
    job,         \* the orchestrator's PipelineJob object of each run
    attempt,     \* fetch_with_retry: its loop variable `attempt` (0 outside the call)
    invoked,     \* history: stage execute() calls made by the orchestrator
    chunks,      \* len(chunks) returned by the chunk stage
    embeddings,  \* len(embeddings) returned by the embed stage
    emitted,     \* telemetry emit calls made for the job, in order
    http,        \* the last HTTP response sent; n is the parity of the number
                 \* of responses, which tells two equal responses in a row apart
    retry,       \* one call of a retry loop, studied on its own (SpecRetry)
    sink,        \* the telemetry emit calls of one caller (SpecSink)
    embed_call,  \* one call of EmbedStage.execute (SpecEmbed)
    store_call,  \* one call of StoreStage.execute (SpecStore)
    lock_run,    \* the accesses handlers make to the job map (SpecLock)
    workers,     \* the background tasks of the submissions (SpecWorkers)
    startup,     \* one start of the service over a jobs table (SpecStartup)
    listing,     \* one listing of jobs over a set of job rows (SpecListing)
    db_query,    \* one fetch of the database-query adapter (SpecQuery)
    scrape,      \* one fetch of the URL-scrape adapter (SpecScrape)
    trace,       \* one request through the correlation-id middleware (SpecTrace)
    got,         \* the last GET of a job, and the jobs a DELETE answered 204 (SpecGet)
    chunk_call,  \* one call of ChunkStage._create_chunks (SpecChunk)
    provider,    \* the requests of generate_embeddings (SpecProvider)
    clean_call,  \* one call of CleanStage.execute (SpecClean)
    crawl,       \* one fetch_with_retry of the URL-scrape adapter (SpecCrawl)
    limiter,     \* the HTTP requests of one URL-scrape adapter (SpecLimiter)
    hybrid,      \* one call of SemanticChunker._chunk_hybrid (SpecHybrid)
    scheduled    \* the executions of one scheduled job (SpecScheduled)

\* The state of the service and of its runners.
service == <<job_store, pc, job, attempt, invoked, chunks, embeddings, emitted, http>>

\* The state of the components studied on their own.
parts == <<retry, sink, embed_call, store_call, lock_run, workers,
          startup, listing, db_query, scrape, trace, got, chunk_call,
          provider, clean_call, crawl, limiter, hybrid, scheduled>>

vars == <<job_store, pc, job, attempt, invoked, chunks, embeddings, emitted, http,
          retry, sink, embed_call, store_call, lock_run, workers,
          startup, listing, db_query, scrape, trace, got, chunk_call,
          provider, clean_call, crawl, limiter, hybrid, scheduled>>

\* An HTTP response of handler `op` for job j (0 when it names no job).
Respond(op, j, code) == [op |-> op, job |-> j, code |-> code, n |-> 1 - http.n]

NoJob == [status |-> "absent"]

InStore(j) == job_store[j] # NoJob

\* ------------------------------------------------------------- job store
\* submit_job: the job_data record.
NewJobData(source) ==
    [status |-> "pending", source |-> source, completed_at |-> None,
     documents_stored |-> None, chunks_created |-> None,
     embeddings_generated |-> None, error_message |-> None,
     stages_completed |-> <<>>]

\* dict.update(updates): the fields of `updates` overwrite those of `rec`.
DictUpdate(rec, updates) ==
    [f \in DOMAIN rec |-> IF f \in DOMAIN updates THEN updates[f] ELSE rec[f]]

\* _update_job: update under the lock, only if the job is in the store.
UpdateJob(store, j, updates) ==
    IF store[j] # NoJob
    THEN [store EXCEPT ![j] = DictUpdate(store[j], updates)]
    ELSE store

\* ------------------------------------------------------------- telemetry
Event(type, stage) == [event_type |-> type, stage |-> stage]

Emit(j, evs) == [emitted EXCEPT ![j] = @ \o evs]

\* ----------------------------------------------------------- orchestrator
NewPipelineJob == [status |-> "pending", current_stage |-> 0, stages_completed |-> <<>>]

\* job.stages_completed.append(name)
\* (variant: insert at the front)
AppendStageWrong(done, name) == <<name>> \o done
AppendStage(done, name) == Append(done, name)

\* The stage whose block follows stage k in PipelineOrchestrator.run.
\* (variant: the chunk block is missing)
StageAfterSkip(k) == IF k = 2 THEN 4 ELSE k + 1
\* (variant: the clean block runs a second time)
StageAfterRepeat(k) == IF k = 2 THEN 2 ELSE k + 1
StageAfter(k) == k + 1

\* Entering stage k: job.status, job.current_stage are set, execute() is called.
EnterStage(pj, k) == [pj EXCEPT !.status = StageStatus[k], !.current_stage = k]

\* The except clauses of PipelineOrchestrator.run for a stage error.
FailJob(pj) == [pj EXCEPT !.status = "failed"]

\* PipelineError message built by the orchestrator for a failure in stage k.
PipelineErrorMessage(k) ==
    <<"Pipeline failed at stage 1", "Pipeline failed at stage 2",
      "Pipeline failed at stage 3", "Pipeline failed at stage 4",
      "Pipeline failed at stage 5">>[k]

\* The except clauses of stage k's execute(): one job_failed event carrying
\* the stage's own name is emitted before the stage error is raised.
StageErrorEvents(k) == <<Event("job_failed", StageNames[k])>>

\* What `except (FetchStageError, ..., StoreStageError)` of
\* PipelineOrchestrator.run emits: nothing, it logs and raises PipelineError.
\* (variant: the orchestrator reports the failure a second time)
OrchestratorStageErrorEventsAgain(k) == <<Event("job_failed", StageNames[k])>>
OrchestratorStageErrorEvents(k) == <<>>

\* _run_pipeline_job, except PipelineError: the update written to the store.
\* (variant: the update lacks error_message)
FailedUpdateNoMessage(msg) == [status |-> "failed", completed_at |-> Some("utcnow")]
FailedUpdate(msg) ==
    [status |-> "failed", completed_at |-> Some("utcnow"), error_message |-> Some(msg)]

\* _run_pipeline_job, after orchestrator.run returned `result`.
ResultUpdate(result) ==
    [status |-> result.status, completed_at |-> Some("utcnow"),
     documents_stored |-> Some(result.documents_stored),
     chunks_created |-> Some(result.chunks_created),
     embeddings_generated |-> Some(result.embeddings_generated),
     stages_completed |-> result.stages_completed]

\* -------------------------------------------------------------- embedding
Min(a, b) == IF a < b THEN a ELSE b

\* EmbeddingService.generate_embeddings: for i in range(0, n, batch_size) the
\* batch texts[i:i+batch_size] is sent and the provider answers one vector
\* per input; the answers are concatenated.  Returns len(all_embeddings).
RECURSIVE BatchLoop(_, _, _)
BatchLoop(i, n, b) ==
    IF i >= n THEN 0 ELSE Min(b, n - i) + BatchLoop(i + b, n, b)

\* (variant: the loop stops one batch early)
GenerateEmbeddingsStopEarly(n, b) == BatchLoop(0, n - b, b)
GenerateEmbeddings(n, b) == BatchLoop(0, n, b)

\* EmbedStage.execute: [] for no chunks, else one Embedding per pair of
\* zip(chunks, vectors).  Returns len(embeddings).
EmbedExecute(n) == IF n = 0 THEN 0 ELSE Min(n, GenerateEmbeddings(n, BatchSize))

\* StoreStage.execute: [] for no embeddings, else one stored document per
\* distinct document_id (the run holds one fetched document).
StoreExecute(e) == IF e = 0 THEN 0 ELSE 1

\* ------------------------------------------------------------------- Init
\* No retry loop is being studied.
RetryIdle ==
    [path |-> "none", max_attempts |-> 0, attempt |-> 0, pos |-> "idle", calls |-> 0,
     errors |-> <<>>, slept |-> <<>>, events |-> <<>>, raised |-> None]

\* No telemetry caller is being studied.
SinkIdle == [kind |-> "none", enabled |-> FALSE, pos |-> "idle", results |-> <<>>]

\* No call of the embed stage is being studied.
EmbedIdle ==
    [chunks |-> <<>>, batch_size |-> 0, model |-> "none", i |-> 0,
     all_embeddings |-> <<>>, pos |-> "idle", out |-> <<>>]

\* No call of the store stage is being studied.
StoreIdle == [embeddings |-> <<>>, pos |-> "idle", posts |-> <<>>, todo |-> <<>>, stored |-> <<>>]

\* No handler is being traced.
LockIdle ==
    [handler |-> "off", ops |-> <<>>, pc |-> 0, held |-> FALSE, job |-> "absent",
     calls |-> 0, last |-> [op |-> "none", held |-> FALSE]]

\* No background task is being counted.
WorkersIdle == <<>>

\* No start of the service is being studied.
StartupIdle == [phase |-> "off", jobs |-> <<>>, running |-> {}, database |-> "closed"]

ListingIdle == [pos |-> "off", kind |-> "none", rows |-> <<>>, tenant_id |-> <<>>,
                status |-> <<>>, page |-> 0, page_size |-> 0, failed |-> FALSE,
                out |-> <<>>, total |-> 0]

QueryIdle == [pos |-> "off", read_only |-> FALSE, connection_string |-> "none",
              query |-> <<>>, error |-> "none", engines |-> 0]

ScrapeIdle == [pos |-> "off", mode |-> "none", respect_robots |-> FALSE,
               robots |-> [status |-> "none", disallow |-> {}], urls |-> <<>>,
               next |-> 0, visited |-> {}, documents |-> <<>>, skipped |-> {},
               page_errors |-> 0, error |-> "none"]

TraceIdle == [pos |-> "off", header |-> <<>>, valid |-> FALSE, state |-> <<>>,
              job |-> <<>>, response |-> <<>>]

GotIdle == [deleted |-> {}, job |-> 0, status |-> "none", after_delete |-> FALSE]

ChunkIdle == [pos |-> "off", config |-> "none", document |-> <<>>, out |-> <<>>]

ProviderIdle ==
    [pos |-> "off", n |-> 0, batch_size |-> 0, max_retries |-> 0, i |-> 0,
     attempt |-> 0, in_flight |-> 0, log |-> <<>>]

CleanIdle ==
    [pos |-> "off", config |-> "none", documents |-> <<>>, i |-> 0, out |-> <<>>,
     short |-> {}]

CrawlIdle ==
    [pos |-> "off", urls |-> <<>>, max_attempts |-> 0, attempt |-> 0, next |-> 0,
     visited |-> {}, documents |-> <<>>, requested |-> <<>>]

LimiterIdle ==
    [pos |-> "off", rate_limit_delay |-> 0, now |-> 0,
     last |-> [h \in {"a.example", "b.example"} |-> <<>>],
     requests |-> <<>>, kind |-> "none", hops |-> 0]

HybridIdle ==
    [pos |-> "off", sentences |-> <<>>, boundaries |-> <<>>, chunk_size |-> 0,
     overlap |-> 0, i |-> 0, current_chunk |-> <<>>, current_tokens |-> 0,
     chunks |-> <<>>, flushes |-> <<>>]

ScheduledIdle == [pos |-> "off", fired |-> 0, job_ids |-> <<>>, results |-> <<>>]

PartsIdle ==
    /\ retry = RetryIdle
    /\ sink = SinkIdle
    /\ embed_call = EmbedIdle
    /\ store_call = StoreIdle
    /\ lock_run = LockIdle
    /\ workers = WorkersIdle
    /\ startup = StartupIdle
    /\ listing = ListingIdle
    /\ db_query = QueryIdle
    /\ scrape = ScrapeIdle
    /\ trace = TraceIdle
    /\ got = GotIdle
    /\ chunk_call = ChunkIdle
    /\ provider = ProviderIdle
    /\ clean_call = CleanIdle
    /\ crawl = CrawlIdle
    /\ limiter = LimiterIdle
    /\ hybrid = HybridIdle
    /\ scheduled = ScheduledIdle

\* The service after start-up: an empty job store, no background task.
ServiceInit ==
    /\ job_store = [j \in JobIds |-> NoJob]
    /\ pc = [j \in JobIds |-> "none"]
    /\ job = [j \in JobIds |-> NewPipelineJob]
    /\ attempt = [j \in JobIds |-> 0]
    /\ invoked = [j \in JobIds |-> <<>>]
    /\ chunks = [j \in JobIds |-> 0]
    /\ embeddings = [j \in JobIds |-> 0]
    /\ emitted = [j \in JobIds |-> <<>>]
    /\ http = [op |-> "none", job |-> 0, code |-> 0, n |-> 0]

Init == ServiceInit /\ PartsIdle

\* ------------------------------------------------------------ submission
\* submit_job: `source == "file_upload" and not file_path`, or
\* `source == "url_scrape" and not url`.
\* (variant: only file_upload is validated)
SourceParamMissingFileOnly(source, has_param) == source = "file_upload" /\ ~has_param
SourceParamMissing(source, has_param) ==
    source \in {"file_upload", "url_scrape"} /\ ~has_param

\* submit_job: 400 when the parameter of the source kind is missing;
\* otherwise the record is stored and the background task is queued.
SubmitJob(source, has_param) ==
    IF SourceParamMissing(source, has_param)
    THEN /\ http' = Respond("submit", 0, 400)
         /\ UNCHANGED <<job_store, pc, job, attempt, invoked, chunks, embeddings, emitted>>
    ELSE \E j \in JobIds :
            /\ ~InStore(j)
            /\ \A i \in JobIds : i < j => InStore(i)
            /\ job_store' = [job_store EXCEPT ![j] = NewJobData(source)]
            /\ pc' = [pc EXCEPT ![j] = "queued"]
            /\ http' = Respond("submit", j, 202)
            /\ UNCHANGED <<job, attempt, invoked, chunks, embeddings, emitted>>

Submit == UNCHANGED parts /\ \E s \in Sources, p \in BOOLEAN : SubmitJob(s, p)

\* ---------------------------------------------------------- cancellation
\* cancel_job: the statuses for which the request is refused with 409.
\* (variant: a failed job is not refused)
CancelRejectsOnlyCompleted == {"completed"}
CancelRejects == {"completed", "failed"}

\* cancel_job: 404 for an unknown job, 409 for completed or failed, else
\* the status is overwritten with "cancelled" and 204 is returned.
CancelJob(j) ==
    IF ~InStore(j)
    THEN /\ http' = Respond("cancel", j, 404)
         /\ UNCHANGED <<job_store, pc, job, attempt, invoked, chunks, embeddings, emitted>>
    ELSE IF job_store[j].status \in CancelRejects
    THEN /\ http' = Respond("cancel", j, 409)
         /\ UNCHANGED <<job_store, pc, job, attempt, invoked, chunks, embeddings, emitted>>
    ELSE /\ job_store' = UpdateJob(job_store, j, [status |-> "cancelled"])
         /\ http' = Respond("cancel", j, 204)
         /\ UNCHANGED <<pc, job, attempt, invoked, chunks, embeddings, emitted>>

Cancel == UNCHANGED parts /\ \E j \in JobIds : CancelJob(j)
\* ------------------------------------------------------ background runner
\* The telemetry emitters catch every exception of their sink and return, and
\* each stage turns whatever it raises into its own stage error, so inside
\* the try block of PipelineOrchestrator.run only stage errors arise; the
\* `finally: await orchestrator.close()` of _run_pipeline_job touches no
\* modelled state and is part of the step that ends the run.
\* A stage error raised by stage k: the stage has emitted job_failed with its
\* own name, the orchestrator marks its job failed and raises PipelineError,
\* and _run_pipeline_job writes the failure to the store.
StageRaises(j, k) ==
    /\ emitted' = Emit(j, StageErrorEvents(k) \o OrchestratorStageErrorEvents(k))
    /\ job' = [job EXCEPT ![j] = FailJob(@)]
    /\ job_store' = UpdateJob(job_store, j, FailedUpdate(PipelineErrorMessage(k)))
    /\ pc' = [pc EXCEPT ![j] = "done"]
    /\ http' = http

\* orchestrator.run after store returned: job completed, job_completed
\* emitted, the result returned and written by _run_pipeline_job.
Complete(j, done, n, e, evs) ==
    /\ job' = [job EXCEPT ![j] = [@ EXCEPT !.status = "completed", !.stages_completed = done]]
    /\ emitted' = Emit(j, evs \o <<Event("job_completed", "")>>)
    /\ job_store' = UpdateJob(job_store, j,
            ResultUpdate([status |-> "completed", documents_stored |-> StoreExecute(e),
                          chunks_created |-> n, embeddings_generated |-> e,
                          stages_completed |-> done]))
    /\ pc' = [pc EXCEPT ![j] = "done"]
    /\ http' = http

\* Stage k < 5 returned: its name is appended and the next stage is entered.
Advance(j, k, evs) ==
    LET done == AppendStage(job[j].stages_completed, StageNames[k])
        nxt == StageAfter(k)
    IN  /\ job' = [job EXCEPT ![j] = EnterStage([@ EXCEPT !.stages_completed = done], nxt)]
        /\ invoked' = [invoked EXCEPT ![j] = Append(@, StageNames[nxt])]
        /\ emitted' = Emit(j, evs)
        /\ pc' = [pc EXCEPT ![j] = StageNames[nxt]]
        /\ UNCHANGED <<job_store, http>>

\* _run_pipeline_job from its try block up to the first suspension inside
\* the fetch stage: status "fetching" is written, orchestrator.run builds
\* its PipelineJob (DocumentSource(source) raises ValueError for a string
\* that is no member, handled by `except Exception` of _run_pipeline_job),
\* emits job_started and enters fetch, whose _get_adapter raises for a
\* kind outside the registry.
RunStart(j) ==
    /\ pc[j] = "queued"
    /\ LET source == job_store[j].source
           store1 == UpdateJob(job_store, j, [status |-> "fetching"])
       IN  IF source \notin DocumentSourceValues
           THEN /\ job_store' = UpdateJob(store1, j, FailedUpdate("Unexpected error"))
                /\ pc' = [pc EXCEPT ![j] = "done"]
                /\ UNCHANGED <<job, attempt, invoked, chunks, embeddings, emitted, http>>
           ELSE IF source \notin FetchStageAdapters
           THEN /\ job' = [job EXCEPT ![j] = FailJob(EnterStage(NewPipelineJob, 1))]
                /\ invoked' = [invoked EXCEPT ![j] = <<"fetch">>]
                /\ emitted' = Emit(j, <<Event("job_started", "")>> \o StageErrorEvents(1)
                                          \o OrchestratorStageErrorEvents(1))
                /\ job_store' = UpdateJob(store1, j, FailedUpdate(PipelineErrorMessage(1)))
                /\ pc' = [pc EXCEPT ![j] = "done"]
                /\ UNCHANGED <<attempt, chunks, embeddings, http>>
           ELSE /\ job' = [job EXCEPT ![j] = EnterStage(NewPipelineJob, 1)]
                /\ invoked' = [invoked EXCEPT ![j] = <<"fetch">>]
                /\ emitted' = Emit(j, <<Event("job_started", "")>>)
                /\ job_store' = store1
                /\ attempt' = [attempt EXCEPT ![j] = 1]
                /\ pc' = [pc EXCEPT ![j] = "fetch"]
                /\ UNCHANGED <<chunks, embeddings, http>>

\* BaseSourceAdapter.fetch_with_retry, one attempt of adapter.fetch: success
\* returns the documents; a failure before the last attempt sleeps and
\* retries; a failure of the last attempt raises FetchError.
FetchAttempt(j, ok) ==
    /\ pc[j] = "fetch"
    /\ IF ok
       THEN /\ Advance(j, 1, <<Event("phase_completed", "fetch")>>)
            /\ attempt' = [attempt EXCEPT ![j] = 0]
            /\ UNCHANGED <<chunks, embeddings>>
       ELSE IF attempt[j] < FetchMaxAttempts
       THEN /\ attempt' = [attempt EXCEPT ![j] = @ + 1]
            /\ UNCHANGED <<job_store, pc, job, invoked, chunks, embeddings, emitted, http>>
       ELSE /\ StageRaises(j, 1)
            /\ UNCHANGED <<attempt, invoked, chunks, embeddings>>

\* CleanStage.execute
CleanStage(j, ok) ==
    /\ pc[j] = "clean"
    /\ IF ok
       THEN /\ Advance(j, 2, <<Event("phase_completed", "clean")>>)
            /\ UNCHANGED <<attempt, chunks, embeddings>>
       ELSE /\ StageRaises(j, 2)
            /\ UNCHANGED <<attempt, invoked, chunks, embeddings>>

\* ChunkStage.execute returning n chunks.  With no chunks the embed and
\* store stages return [] at once, without suspending, and the run completes.
ChunkStage(j, ok, n) ==
    /\ pc[j] = "chunk"
    /\ IF ~ok
       THEN /\ StageRaises(j, 3)
            /\ UNCHANGED <<attempt, invoked, chunks, embeddings>>
       ELSE IF n > 0
       THEN /\ Advance(j, 3, <<Event("phase_completed", "chunk")>>)
            /\ chunks' = [chunks EXCEPT ![j] = n]
            /\ UNCHANGED <<attempt, embeddings>>
       ELSE /\ invoked' = [invoked EXCEPT ![j] = @ \o <<"embed", "store">>]
            /\ Complete(j, AppendStage(AppendStage(AppendStage(
                              job[j].stages_completed, "chunk"), "embed"), "store"),
                        0, EmbedExecute(0), <<Event("phase_completed", "chunk")>>)
            /\ chunks' = [chunks EXCEPT ![j] = 0]
            /\ embeddings' = [embeddings EXCEPT ![j] = EmbedExecute(0)]
            /\ UNCHANGED attempt

\* EmbedStage.execute on a non-empty chunk list.
EmbedStage(j, ok) ==
    /\ pc[j] = "embed"
    /\ IF ok
       THEN /\ Advance(j, 4, <<Event("phase_completed", "embed")>>)
            /\ embeddings' = [embeddings EXCEPT ![j] = EmbedExecute(chunks[j])]
            /\ UNCHANGED <<attempt, chunks>>
       ELSE /\ StageRaises(j, 4)
            /\ UNCHANGED <<attempt, invoked, chunks, embeddings>>

\* StoreStage.execute, then the end of orchestrator.run and the result write.
StoreStage(j, ok) ==
    /\ pc[j] = "store"
    /\ IF ok
       THEN /\ Complete(j, AppendStage(job[j].stages_completed, "store"),
                        chunks[j], embeddings[j],
                        IF embeddings[j] = 0 THEN <<>>
                        ELSE <<Event("phase_completed", "store")>>)
            /\ UNCHANGED <<attempt, invoked, chunks, embeddings>>
       ELSE /\ StageRaises(j, 5)
            /\ UNCHANGED <<attempt, invoked, chunks, embeddings>>

Fetch == UNCHANGED parts /\ \E j \in JobIds, ok \in BOOLEAN : FetchAttempt(j, ok)
Clean == UNCHANGED parts /\ \E j \in JobIds, ok \in BOOLEAN : CleanStage(j, ok)
Chunk == UNCHANGED parts /\ \E j \in JobIds, ok \in BOOLEAN, n \in 0..MaxChunks : ChunkStage(j, ok, n)
Embed == UNCHANGED parts /\ \E j \in JobIds, ok \in BOOLEAN : EmbedStage(j, ok)
Store == UNCHANGED parts /\ \E j \in JobIds, ok \in BOOLEAN : StoreStage(j, ok)
Start == UNCHANGED parts /\ \E j \in JobIds : RunStart(j)

\* _run_pipeline_job as wired: PipelineOrchestrator() is evaluated before the
\* try block; when FetchStage() raises, the exception leaves the task and
\* the job record is never touched.
RunWired(j) ==
    IF FetchStageInitRaises
    THEN /\ pc[j] = "queued"
         /\ pc' = [pc EXCEPT ![j] = "crashed"]
         /\ UNCHANGED <<job_store, job, attempt, invoked, chunks, embeddings, emitted, http>>
    ELSE RunStart(j)

StartWired == UNCHANGED parts /\ \E j \in JobIds : RunWired(j)

\* ---------------------------------------------------------- specifications
Next == Submit \/ Cancel \/ Start \/ Fetch \/ Clean \/ Chunk \/ Embed \/ Store

Spec == Init /\ [][Next]_vars

NextWired == Submit \/ Cancel \/ StartWired

SpecWired == Init /\ [][NextWired]_vars

\* The service as wired, under submissions of every source kind the handler
\* validates: those of Sources and url_scrape.
SubmittedSources == Sources \cup {"url_scrape"}

SubmitAny ==
    UNCHANGED parts /\ \E s \in SubmittedSources, p \in BOOLEAN : SubmitJob(s, p)

NextSubmit == SubmitAny \/ Cancel \/ StartWired

SpecSubmit == Init /\ [][NextSubmit]_vars

\* The event loop runs every queued background task.
SpecWiredLive == SpecWired /\ \A j \in JobIds : WF_vars(UNCHANGED parts /\ RunWired(j))

TypeOK ==
    /\ \A j \in JobIds : pc[j] \in {"none", "queued", "fetch", "clean", "chunk", "embed", "store", "done", "crashed"}
    /\ \A j \in JobIds : attempt[j] \in 0..FetchMaxAttempts
\* ============================================================ retry loops
\* One call of a retry loop, from its first attempt to its return or raise.
\* Three loops exist: BaseSourceAdapter.fetch_with_retry (sources/base.py),
\* EmbeddingService._generate_batch_with_retry (services/embedding_service.py),
\* both run by the pipeline, and RetryableOperation (utils/retry.py) driven
\* as its docstring shows, which no pipeline code uses.
\*   retry.attempt   the loop variable (current_attempt for RetryableOperation)
\*   retry.calls     history: invocations of the operation
\*   retry.errors    history: the error raised by each failed attempt
\*   retry.slept     history: the asyncio.sleep calls, [after, seconds]
\*   retry.events    history: the retry_attempt telemetry emit calls
\*   retry.raised    the error the loop raised to its caller

\* bound on the max_attempts argument
MaxRetryAttempts == 3

\* fetch_with_retry: default of backoff_base, which FetchStage does not override.
FetchBackoffBase == 2

\* _generate_batch_with_retry: the literal base of `2 ** attempt`.
EmbedBackoffBase == 2

\* config.py RETRY_DELAY, RETRY_BACKOFF; RetryableOperation max_delay default.
RETRY_DELAY == 1
RETRY_BACKOFF == 2
DefaultMaxDelay == 60

RetryPaths == {"fetch_with_retry", "generate_batch_with_retry", "RetryableOperation"}

\* What makes an attempt fail: bad input (ValidationError), a failure that
\* repeats on every attempt (404, 403, robots.txt), a passing failure.
ErrorCauses == {"validation", "permanent", "transient"}

\* b ** e
RECURSIVE Pow(_, _)
Pow(b, e) == IF e = 0 THEN 1 ELSE b * Pow(b, e - 1)

\* The exception object raised by attempt a of the operation.
AttemptError(path, cause, a) ==
    [cls |-> IF path # "fetch_with_retry" THEN "Exception"
             ELSE IF cause = "validation" THEN "ValidationError" ELSE "FetchError",
     cause |-> cause, attempt |-> a]

\* fetch_with_retry, after its loop: a new FetchError whose message quotes
\* str(last_error) is raised.
FetchErrorAfterRetries(last_error) ==
    [cls |-> "FetchError", cause |-> "Failed to fetch after attempts", attempt |-> 0]

\* _generate_batch_with_retry, after its loop: a new EmbeddingError with
\* original_error=str(last_error) is raised.
EmbeddingErrorAfterRetries(last_error) ==
    [cls |-> "EmbeddingError", cause |-> "Failed to generate embeddings after attempts",
     attempt |-> 0]

\* fetch_with_retry: `if attempt < max_attempts` guards the sleep; the
\* `except Exception` clause it sits in catches every error class.
\* (variant: the sleep is also taken after the last attempt)
FetchRetriesAlways(a, m) == a <= m
FetchRetries(a, m) == a < m

\* fetch_with_retry: backoff_seconds = backoff_base ** attempt
FetchBackoffSeconds(a) == Pow(FetchBackoffBase, a)

\* _generate_batch_with_retry: `if attempt < self.max_retries`
EmbedRetries(a, m) == a < m

\* _generate_batch_with_retry: backoff = 2 ** attempt
EmbedBackoffSeconds(a) == Pow(EmbedBackoffBase, a)

\* RetryableOperation.should_retry
ShouldRetry(current_attempt, m) == current_attempt < m

\* RetryableOperation.wait_before_retry:
\* min(base_delay * multiplier ** (current_attempt - 1), max_delay)
WaitBeforeRetrySeconds(current_attempt) ==
    Min(RETRY_DELAY * Pow(RETRY_BACKOFF, current_attempt - 1), DefaultMaxDelay)

\* The retry_attempt events a loop emits when attempt a of m has failed and
\* a sleep follows: none; telemetry.emit_retry_attempt has no caller.
RetryAttemptEvents(a, m) == <<>>

RetryStart(path, m) ==
    [path |-> path, max_attempts |-> m, attempt |-> 1, pos |-> "call", calls |-> 0,
     errors |-> <<>>, slept |-> <<>>, events |-> <<>>, raised |-> None]

InitRetry ==
    /\ ServiceInit /\ sink = SinkIdle /\ embed_call = EmbedIdle
       /\ store_call = StoreIdle /\ lock_run = LockIdle /\ workers = WorkersIdle
       /\ startup = StartupIdle /\ listing = ListingIdle /\ db_query = QueryIdle
       /\ scrape = ScrapeIdle /\ trace = TraceIdle /\ got = GotIdle
       /\ chunk_call = ChunkIdle /\ provider = ProviderIdle /\ clean_call = CleanIdle
       /\ crawl = CrawlIdle /\ limiter = LimiterIdle /\ hybrid = HybridIdle
       /\ scheduled = ScheduledIdle
    /\ \E path \in RetryPaths, m \in 1..MaxRetryAttempts : retry = RetryStart(path, m)

\* One attempt of a loop on `path`: the operation is called; on success the
\* loop returns; on an error it either emits `events`, sleeps `seconds` and
\* goes to the next attempt (retries), or raises `final`.
RetryAttempt(path, outcome, retries, seconds, final) ==
    /\ retry.path = path
    /\ retry.pos = "call"
    /\ LET a == retry.attempt
           called == [retry EXCEPT !.calls = @ + 1]
       IN  IF outcome = "ok"
           THEN retry' = [called EXCEPT !.pos = "returned"]
           ELSE LET failed == [called EXCEPT !.errors = Append(@, AttemptError(path, outcome, a))]
                IN  IF retries
                    THEN retry' = [failed EXCEPT
                            !.events = @ \o RetryAttemptEvents(a, retry.max_attempts),
                            !.slept = Append(@, [after |-> a, seconds |-> seconds]),
                            !.attempt = a + 1]
                    ELSE retry' = [failed EXCEPT !.pos = "raised", !.raised = Some(final)]
    /\ UNCHANGED <<service, sink, embed_call, store_call, lock_run, workers, startup, listing, db_query, scrape, trace, got, chunk_call, provider, clean_call, crawl, limiter, hybrid, scheduled>>

\* BaseSourceAdapter.fetch_with_retry, one pass of its loop body.
FetchWithRetry(outcome) ==
    RetryAttempt("fetch_with_retry", outcome,
                 FetchRetries(retry.attempt, retry.max_attempts),
                 FetchBackoffSeconds(retry.attempt),
                 FetchErrorAfterRetries(AttemptError("fetch_with_retry", outcome, retry.attempt)))

\* EmbeddingService._generate_batch_with_retry, one pass of its loop body.
GenerateBatchWithRetry(outcome) ==
    RetryAttempt("generate_batch_with_retry", outcome,
                 EmbedRetries(retry.attempt, retry.max_attempts),
                 EmbedBackoffSeconds(retry.attempt),
                 EmbeddingErrorAfterRetries(
                     AttemptError("generate_batch_with_retry", outcome, retry.attempt)))

\* A loop over RetryableOperation as in its docstring: __next__ has set
\* current_attempt; on an error should_retry decides between
\* wait_before_retry and a bare `raise` of the caught error.
RetryableOperationLoop(outcome) ==
    RetryAttempt("RetryableOperation", outcome,
                 ShouldRetry(retry.attempt, retry.max_attempts),
                 WaitBeforeRetrySeconds(retry.attempt),
                 AttemptError("RetryableOperation", outcome, retry.attempt))

FetchRetryStep == \E o \in ErrorCauses \cup {"ok"} : FetchWithRetry(o)
EmbedRetryStep == \E o \in ErrorCauses \cup {"ok"} : GenerateBatchWithRetry(o)
ManualRetryStep == \E o \in ErrorCauses \cup {"ok"} : RetryableOperationLoop(o)

NextRetry == FetchRetryStep \/ EmbedRetryStep \/ ManualRetryStep

SpecRetry == InitRetry /\ [][NextRetry]_vars

\* ========================================================= telemetry sinks
\* The emit_* methods of both telemetry clients build the event and hand it
\* to _emit_event.  The pipeline's stages and orchestrator call them and
\* ignore the result.  services/telemetry_db_client.py writes the event into
\* an SQLite table, services/telemetry_client.py posts it over HTTP.
\*   sink.results   history: per emit call, the condition met and the result

\* bound on the number of emit calls of the caller
MaxEmits == 3

\* What _emit_event meets inside its try block: success, or the exception
\* class raised by the sink; for HTTP also an answer with status >= 400.
DbConditions == {"written", "sqlite3.OperationalError", "sqlite3.IntegrityError", "TypeError"}
HttpConditions == {"status_200", "status_500", "httpx.TimeoutException", "httpx.ConnectError"}

SinkConditions(kind) == IF kind = "db" THEN DbConditions ELSE HttpConditions

\* The base class of each exception class (Python, sqlite3, httpx).
BaseClass ==
    [c \in {"sqlite3.OperationalError", "sqlite3.IntegrityError", "sqlite3.DatabaseError",
            "sqlite3.Error", "TypeError", "httpx.TimeoutException", "httpx.ConnectError",
            "httpx.TransportError", "httpx.RequestError", "httpx.HTTPError", "Exception"} |->
        CASE c \in {"sqlite3.OperationalError", "sqlite3.IntegrityError"} -> "sqlite3.DatabaseError"
          [] c = "sqlite3.DatabaseError" -> "sqlite3.Error"
          [] c \in {"httpx.TimeoutException", "httpx.ConnectError"} -> "httpx.TransportError"
          [] c = "httpx.TransportError" -> "httpx.RequestError"
          [] c = "httpx.RequestError" -> "httpx.HTTPError"
          [] c = "Exception" -> "BaseException"
          [] OTHER -> "Exception"]

\* isinstance(exception of class c, h)
RECURSIVE IsSubclass(_, _)
IsSubclass(c, h) ==
    \/ c = h
    \/ c \in DOMAIN BaseClass /\ IsSubclass(BaseClass[c], h)

\* The except clauses of _emit_event, in order.
\* (variant: only the first, specific clause of each client)
EmitHandlersSpecific(kind) ==
    IF kind = "db" THEN <<"sqlite3.OperationalError">> ELSE <<"httpx.TimeoutException">>
EmitHandlers(kind) ==
    IF kind = "db" THEN <<"sqlite3.OperationalError", "Exception">>
    ELSE <<"httpx.TimeoutException", "Exception">>

\* _emit_event: False when disabled; True when the write or post went
\* through; False for an HTTP status >= 400 and for an exception one of
\* the except clauses catches; "raised" for an exception none catches.
EmitEvent(kind, enabled, cond) ==
    IF ~enabled THEN "False"
    ELSE IF cond \in {"written", "status_200"} THEN "True"
    ELSE IF cond = "status_500" THEN "False"
    ELSE IF \E k \in 1..Len(EmitHandlers(kind)) : IsSubclass(cond, EmitHandlers(kind)[k])
         THEN "False"
         ELSE "raised"

InitSink ==
    /\ ServiceInit /\ retry = RetryIdle /\ embed_call = EmbedIdle
       /\ store_call = StoreIdle /\ lock_run = LockIdle /\ workers = WorkersIdle
       /\ startup = StartupIdle /\ listing = ListingIdle /\ db_query = QueryIdle
       /\ scrape = ScrapeIdle /\ trace = TraceIdle /\ got = GotIdle
       /\ chunk_call = ChunkIdle /\ provider = ProviderIdle /\ clean_call = CleanIdle
       /\ crawl = CrawlIdle /\ limiter = LimiterIdle /\ hybrid = HybridIdle
       /\ scheduled = ScheduledIdle
    /\ \E kind \in {"db", "http"}, enabled \in BOOLEAN :
          sink = [kind |-> kind, enabled |-> enabled, pos |-> "running", results |-> <<>>]

\* One `await telemetry.emit_...(...)` of a caller: the caller goes on to
\* its next statement when the call returns and is left when it raises.
EmitCall(cond) ==
    /\ sink.pos = "running"
    /\ Len(sink.results) < MaxEmits
    /\ cond \in SinkConditions(sink.kind)
    /\ LET result == EmitEvent(sink.kind, sink.enabled, cond)
       IN  sink' = [sink EXCEPT
                      !.results = Append(@, [cond |-> cond, result |-> result]),
                      !.pos = IF result = "raised" THEN "raised" ELSE "running"]
    /\ UNCHANGED <<service, retry, embed_call, store_call, lock_run, workers, startup, listing, db_query, scrape, trace, got, chunk_call, provider, clean_call, crawl, limiter, hybrid, scheduled>>

DbEmit == \E cond \in DbConditions : sink.kind = "db" /\ EmitCall(cond)
HttpEmit == \E cond \in HttpConditions : sink.kind = "http" /\ EmitCall(cond)

NextSink == DbEmit \/ HttpEmit

SpecSink == InitSink /\ [][NextSink]_vars

\* ============================================================== embed stage
\* One call of EmbedStage.execute(chunks) with an EmbeddingService of a given
\* batch_size, element by element.  A chunk is [id, content]; the vector
\* the provider computes for a text is Vec(text, d), d being its length.
\*   embed_call.i               loop variable of generate_embeddings
\*   embed_call.all_embeddings  its accumulator
\*   embed_call.out             the list execute returns

\* bounds on the number of chunks and on batch_size
MaxTexts == 3
MaxBatch == 3

\* EmbeddingService.get_embedding_dimension: the declared dimension of a model.
ModelDimensions ==
    [small |-> 1536, large |-> 3072, ada |-> 1536]

\* models/document.py Embedding.validate_vector_dimensions: expected_dims.
ExpectedDims == 1536

\* The lengths a provider answer may have: the two declared ones and another.
VectorLengths == {1536, 3072, 256}

Vec(text, d) == [text |-> text, len |-> d]

ChunkOf(c) == [id |-> c, content |-> <<"text", c>>]

\* The chunk lists given to the stage: distinct chunks in any order.
ChunkLists ==
    {cs \in UNION {[1..n -> {ChunkOf(c) : c \in 1..MaxTexts}] : n \in 0..MaxTexts} :
        \A a, b \in 1..Len(cs) : cs[a] = cs[b] => a = b}

\* texts[i:i + batch_size]
BatchTexts(texts, i, b) == SubSeq(texts, i + 1, Min(i + b, Len(texts)))

\* EmbeddingService._generate_batch: [item.embedding for item in
\* response.data], the provider answering one item per input, in input order.
GenerateBatch(batch, d) == [k \in 1..Len(batch) |-> Vec(batch[k], d)]

\* all_embeddings.extend(batch_embeddings)
\* (variant: the batch is put in front)
ExtendFront(all, batch_embeddings) == batch_embeddings \o all
Extend(all, batch_embeddings) == all \o batch_embeddings

\* EmbedStage.execute: one Embedding per pair of zip(chunks, vectors).
ZipEmbeddings(cs, vectors) ==
    [k \in 1..Min(Len(cs), Len(vectors)) |-> [chunk_id |-> cs[k].id, vector |-> vectors[k]]]

InitEmbed ==
    /\ ServiceInit /\ retry = RetryIdle /\ sink = SinkIdle /\ store_call = StoreIdle
       /\ lock_run = LockIdle /\ workers = WorkersIdle /\ startup = StartupIdle
       /\ listing = ListingIdle /\ db_query = QueryIdle /\ scrape = ScrapeIdle
       /\ trace = TraceIdle /\ got = GotIdle /\ chunk_call = ChunkIdle
       /\ provider = ProviderIdle /\ clean_call = CleanIdle /\ crawl = CrawlIdle
       /\ limiter = LimiterIdle /\ hybrid = HybridIdle /\ scheduled = ScheduledIdle
    /\ \E cs \in ChunkLists, b \in 1..MaxBatch, model \in DOMAIN ModelDimensions :
          embed_call = [chunks |-> cs, batch_size |-> b, model |-> model, i |-> 0,
                        all_embeddings |-> <<>>, pos |-> "batches", out |-> <<>>]

\* generate_embeddings, one pass of its loop: the batch goes through
\* _generate_batch_with_retry, which returns the vectors, of length d each,
\* or raises.
GenerateEmbeddingsBatch(ok, d) ==
    /\ embed_call.pos = "batches"
    /\ embed_call.i < Len(embed_call.chunks)
    /\ LET texts == [k \in 1..Len(embed_call.chunks) |-> embed_call.chunks[k].content]
           batch == BatchTexts(texts, embed_call.i, embed_call.batch_size)
       IN  IF ok
           THEN embed_call' = [embed_call EXCEPT
                    !.all_embeddings = Extend(@, GenerateBatch(batch, d)),
                    !.i = @ + embed_call.batch_size]
           ELSE embed_call' = [embed_call EXCEPT !.pos = "raised"]
    /\ UNCHANGED <<service, retry, sink, store_call, lock_run, workers, startup, listing, db_query, scrape, trace, got, chunk_call, provider, clean_call, crawl, limiter, hybrid, scheduled>>

\* Embedding(...) in the zip loop runs validate_vector_dimensions: a vector
\* whose length is not expected_dims raises, whatever the model.
EmbeddingRejects(embedding) == embedding.vector.len # ExpectedDims

\* EmbedStage.execute ends: [] at once for no chunks, else the zipped list
\* after the loop of generate_embeddings has ended; an Embedding that fails
\* validation raises inside the try block and the stage raises its error.
EmbedExecuteReturn ==
    /\ embed_call.pos = "batches"
    /\ embed_call.i >= Len(embed_call.chunks)
    /\ LET zipped == IF embed_call.chunks = <<>> THEN <<>>
                     ELSE ZipEmbeddings(embed_call.chunks, embed_call.all_embeddings)
       IN  IF \E k \in 1..Len(zipped) : EmbeddingRejects(zipped[k])
           THEN embed_call' = [embed_call EXCEPT !.pos = "raised"]
           ELSE embed_call' = [embed_call EXCEPT !.pos = "returned", !.out = zipped]
    /\ UNCHANGED <<service, retry, sink, store_call, lock_run, workers, startup, listing, db_query, scrape, trace, got, chunk_call, provider, clean_call, crawl, limiter, hybrid, scheduled>>

EmbedBatchStep == \E ok \in BOOLEAN, d \in VectorLengths : GenerateEmbeddingsBatch(ok, d)

NextEmbed == EmbedBatchStep \/ EmbedExecuteReturn

SpecEmbed == InitEmbed /\ [][NextEmbed]_vars

\* ============================================================== store stage
\* One call of StoreStage.execute(embeddings).  An embedding is
\* [chunk_id, document_id], document_id being metadata["document_id"].
\*   store_call.posts   history: the payloads of POST /api/v1/embeddings/batch
\*   store_call.todo    the document ids of `grouped` not yet stored
\*   store_call.stored  the StoredDocument records built so far

\* bounds on the length of the embedding list and on the documents it spans
MaxStored == 4
MaxDocs == 2

\* The embedding lists given to the stage.
EmbeddingLists ==
    UNION {{[k \in 1..n |-> [chunk_id |-> k, document_id |-> d[k]]] : d \in [1..n -> 1..MaxDocs]}
           : n \in 0..MaxStored}

\* DataForgeClient.store_embeddings: the "embeddings" list of the payload,
\* one entry per embedding given.
\* (variant: only the first embedding is sent)
EmbeddingsPayloadFirst(embs) == SubSeq(embs, 1, 1)
EmbeddingsPayload(embs) == embs

\* _group_embeddings_by_document: the keys of `grouped` in insertion order.
RECURSIVE GroupKeys(_)
GroupKeys(embs) ==
    IF embs = <<>> THEN <<>>
    ELSE LET before == GroupKeys(SubSeq(embs, 1, Len(embs) - 1))
             d == embs[Len(embs)].document_id
         IN  IF \E k \in 1..Len(before) : before[k] = d THEN before ELSE Append(before, d)

\* _create_stored_document for one key of `grouped`.
CreateStoredDocument(embs, d) ==
    [id |-> d,
     embedding_count |-> Cardinality({k \in 1..Len(embs) : embs[k].document_id = d})]

InitStore ==
    /\ ServiceInit /\ retry = RetryIdle /\ sink = SinkIdle /\ embed_call = EmbedIdle
       /\ lock_run = LockIdle /\ workers = WorkersIdle /\ startup = StartupIdle
       /\ listing = ListingIdle /\ db_query = QueryIdle /\ scrape = ScrapeIdle
       /\ trace = TraceIdle /\ got = GotIdle /\ chunk_call = ChunkIdle
       /\ provider = ProviderIdle /\ clean_call = CleanIdle /\ crawl = CrawlIdle
       /\ limiter = LimiterIdle /\ hybrid = HybridIdle /\ scheduled = ScheduledIdle
    /\ \E embs \in EmbeddingLists :
          store_call = [embeddings |-> embs, pos |-> "submit", posts |-> <<>>,
                        todo |-> <<>>, stored |-> <<>>]

\* execute with an empty list: `return []` before the try block.
StoreExecuteEmpty ==
    /\ store_call.pos = "submit"
    /\ store_call.embeddings = <<>>
    /\ store_call' = [store_call EXCEPT !.pos = "returned"]
    /\ UNCHANGED <<service, retry, sink, embed_call, lock_run, workers, startup, listing, db_query, scrape, trace, got, chunk_call, provider, clean_call, crawl, limiter, hybrid, scheduled>>

\* await dataforge_client.store_embeddings(embeddings): one POST carrying
\* the payload; a status >= 400, a timeout or any other error raises
\* DataForgeError, which ends the stage with its stage error.
StoreEmbeddings(ok) ==
    /\ store_call.pos = "submit"
    /\ store_call.embeddings # <<>>
    /\ store_call' = [store_call EXCEPT
            !.posts = Append(@, EmbeddingsPayload(store_call.embeddings)),
            !.pos = IF ok THEN "metadata" ELSE "raised",
            !.todo = IF ok THEN GroupKeys(store_call.embeddings) ELSE <<>>]
    /\ UNCHANGED <<service, retry, sink, embed_call, lock_run, workers, startup, listing, db_query, scrape, trace, got, chunk_call, provider, clean_call, crawl, limiter, hybrid, scheduled>>

\* One pass of `for doc_id, doc_embeddings in grouped.items()`:
\* store_document_metadata posts the record or raises DataForgeError.
StoreDocumentMetadata(ok) ==
    /\ store_call.pos = "metadata"
    /\ store_call.todo # <<>>
    /\ IF ok
       THEN store_call' = [store_call EXCEPT
                !.stored = Append(@, CreateStoredDocument(store_call.embeddings,
                                                          Head(store_call.todo))),
                !.todo = Tail(@)]
       ELSE store_call' = [store_call EXCEPT !.pos = "raised"]
    /\ UNCHANGED <<service, retry, sink, embed_call, lock_run, workers, startup, listing, db_query, scrape, trace, got, chunk_call, provider, clean_call, crawl, limiter, hybrid, scheduled>>

\* execute returns stored_documents after the loop.
StoreExecuteReturn ==
    /\ store_call.pos = "metadata"
    /\ store_call.todo = <<>>
    /\ store_call' = [store_call EXCEPT !.pos = "returned"]
    /\ UNCHANGED <<service, retry, sink, embed_call, lock_run, workers, startup, listing, db_query, scrape, trace, got, chunk_call, provider, clean_call, crawl, limiter, hybrid, scheduled>>

StoreSubmitStep == \E ok \in BOOLEAN : StoreEmbeddings(ok)
StoreMetadataStep == \E ok \in BOOLEAN : StoreDocumentMetadata(ok)

NextStore == StoreExecuteEmpty \/ StoreSubmitStep \/ StoreMetadataStep \/ StoreExecuteReturn

SpecStore == InitStore /\ [][NextStore]_vars

\* ========================================================== job-store lock
\* The accesses the handlers of api/routes.py make to _job_store and to the
\* job dicts it holds, one access per step.  _get_job and _list_jobs return
\* the dicts of the map themselves, not copies, so reading a field of what
\* they returned reads the map's data.  The map holds one job here.
\*   lock_run.handler  the coroutine being traced ("none" between calls)
\*   lock_run.ops      the operations of the call being traced
\*   lock_run.pc       the number of them already done
\*   lock_run.held     _job_store_lock is locked
\*   lock_run.job      status of the job in the map, "absent" before submit
\*   lock_run.last     the last access made and whether the lock was held

\* bound on the number of handler calls traced
MaxCalls == 3

\* `async with _job_store_lock:` around a body.
WithLock(body) == <<"acquire">> \o body \o <<"release">>

\* submit_job: _store_job(job_data), then JobResponse(**job_data).
SubmitJobOps == WithLock(<<"write_map">>) \o <<"read_fields">>

\* get_job: _get_job, 404 for None, else JobResponse(**job_data).
GetJobOps(status) ==
    WithLock(<<"read_map">>) \o (IF status = "absent" THEN <<>> ELSE <<"read_fields">>)

\* list_jobs: _list_jobs filters, sorts and slices under the lock; the
\* handler then builds JobResponse(**job) for each job returned.
ListJobsOps(status) ==
    IF status = "absent" THEN WithLock(<<"read_map">>)
    ELSE WithLock(<<"read_map", "read_fields">>) \o <<"read_fields">>

\* _update_job: `if job_id in _job_store: _job_store[job_id].update(updates)`.
UpdateJobOps(status) ==
    WithLock(IF status = "absent" THEN <<"read_map">> ELSE <<"read_map", "write_fields">>)

\* cancel_job: _get_job, 404 for None, job_data["status"] compared with
\* completed and failed, then _update_job.
CancelJobOps(status) ==
    WithLock(<<"read_map">>)
      \o (IF status = "absent" THEN <<>>
          ELSE <<"read_fields">>
                 \o (IF status \in CancelRejects THEN <<>> ELSE UpdateJobOps(status)))

\* health_check: counts the jobs by status inside one `async with`.
HealthCheckOps == WithLock(<<"read_map", "read_fields">>)

Handlers == {"submit_job", "get_job", "list_jobs", "cancel_job", "run_pipeline_job", "health_check"}

\* The operations handler h performs when the job has the given status;
\* the background task is traced for its final _update_job.
HandlerOps(h, status) ==
    CASE h = "submit_job" -> SubmitJobOps
      [] h = "get_job" -> GetJobOps(status)
      [] h = "list_jobs" -> ListJobsOps(status)
      [] h = "cancel_job" -> CancelJobOps(status)
      [] h = "run_pipeline_job" -> UpdateJobOps(status)
      [] h = "health_check" -> HealthCheckOps

\* The status the job has after handler h wrote to the map.
StatusWritten(h, status) ==
    CASE h = "submit_job" -> "pending"
      [] h = "cancel_job" -> "cancelled"
      [] h = "run_pipeline_job" -> "completed"
      [] OTHER -> status

InitLock ==
    /\ ServiceInit /\ retry = RetryIdle /\ sink = SinkIdle /\ embed_call = EmbedIdle
       /\ store_call = StoreIdle /\ workers = WorkersIdle /\ startup = StartupIdle
       /\ listing = ListingIdle /\ db_query = QueryIdle /\ scrape = ScrapeIdle
       /\ trace = TraceIdle /\ got = GotIdle /\ chunk_call = ChunkIdle
       /\ provider = ProviderIdle /\ clean_call = CleanIdle /\ crawl = CrawlIdle
       /\ limiter = LimiterIdle /\ hybrid = HybridIdle /\ scheduled = ScheduledIdle
    /\ lock_run = [LockIdle EXCEPT !.handler = "none"]

\* A request arrives, or a background task reaches its write.  What the
\* call will do is fixed by the status it meets: no operation of a handler
\* suspends, so nothing else runs before the call has returned.
BeginHandler(h) ==
    /\ lock_run.handler = "none"
    /\ lock_run.calls < MaxCalls
    /\ h = "submit_job" => lock_run.job = "absent"
    /\ lock_run' = [lock_run EXCEPT !.handler = h, !.ops = HandlerOps(h, lock_run.job),
                                    !.pc = 0, !.calls = @ + 1,
                                    !.last = [op |-> "none", held |-> FALSE]]
    /\ UNCHANGED <<service, retry, sink, embed_call, store_call, workers, startup, listing, db_query, scrape, trace, got, chunk_call, provider, clean_call, crawl, limiter, hybrid, scheduled>>

\* The traced handler performs its next operation; after the last one it
\* has returned.
HandlerStep ==
    /\ lock_run.handler \in Handlers
    /\ lock_run.pc < Len(lock_run.ops)
    /\ LET op == lock_run.ops[lock_run.pc + 1]
       IN  /\ op = "acquire" => ~lock_run.held
           /\ lock_run' = [lock_run EXCEPT
                 !.pc = @ + 1,
                 !.held = IF op = "acquire" THEN TRUE ELSE IF op = "release" THEN FALSE ELSE @,
                 !.job = IF op \in {"write_map", "write_fields"}
                         THEN StatusWritten(lock_run.handler, @) ELSE @,
                 !.last = IF op \in {"acquire", "release"} THEN @
                          ELSE [op |-> op, held |-> lock_run.held],
                 !.handler = IF lock_run.pc + 1 = Len(lock_run.ops) THEN "none" ELSE @]
    /\ UNCHANGED <<service, retry, sink, embed_call, store_call, workers, startup, listing, db_query, scrape, trace, got, chunk_call, provider, clean_call, crawl, limiter, hybrid, scheduled>>

BeginStep == \E h \in Handlers : BeginHandler(h)

NextLock == BeginStep \/ HandlerStep

SpecLock == InitLock /\ [][NextLock]_vars

\* ======================================================== background tasks
\* submit_job hands _run_pipeline_job to BackgroundTasks.add_task; each
\* request's tasks run in that request's own asyncio task once the response
\* is sent, so runs of different submissions interleave at their awaits.
\* Nothing reads settings.MAX_WORKERS.
\*   workers[k]   position of the background task of the k-th submission

\* bound on the number of submissions
MaxSubmissions == 5

\* config.py MAX_WORKERS, default
MAX_WORKERS == 4

InitWorkers ==
    /\ ServiceInit /\ retry = RetryIdle /\ sink = SinkIdle /\ embed_call = EmbedIdle
       /\ store_call = StoreIdle /\ lock_run = LockIdle /\ startup = StartupIdle
       /\ listing = ListingIdle /\ db_query = QueryIdle /\ scrape = ScrapeIdle
       /\ trace = TraceIdle /\ got = GotIdle /\ chunk_call = ChunkIdle
       /\ provider = ProviderIdle /\ clean_call = CleanIdle /\ crawl = CrawlIdle
       /\ limiter = LimiterIdle /\ hybrid = HybridIdle /\ scheduled = ScheduledIdle
    /\ workers = <<>>

\* submit_job: background_tasks.add_task(_run_pipeline_job, ...)
AddTask ==
    /\ Len(workers) < MaxSubmissions
    /\ workers' = Append(workers, "queued")
    /\ UNCHANGED <<service, retry, sink, embed_call, store_call, lock_run, startup, listing, db_query, scrape, trace, got, chunk_call, provider, clean_call, crawl, limiter, hybrid, scheduled>>

\* _run_pipeline_job starts: orchestrator.run(...) is awaited.
RunBegins(k) ==
    /\ workers[k] = "queued"
    /\ workers' = [workers EXCEPT ![k] = "running"]
    /\ UNCHANGED <<service, retry, sink, embed_call, store_call, lock_run, startup, listing, db_query, scrape, trace, got, chunk_call, provider, clean_call, crawl, limiter, hybrid, scheduled>>

\* orchestrator.run returned or raised; the final update is written.
RunEnds(k) ==
    /\ workers[k] = "running"
    /\ workers' = [workers EXCEPT ![k] = "done"]
    /\ UNCHANGED <<service, retry, sink, embed_call, store_call, lock_run, startup, listing, db_query, scrape, trace, got, chunk_call, provider, clean_call, crawl, limiter, hybrid, scheduled>>

BeginRunStep == \E k \in 1..Len(workers) : RunBegins(k)
EndRunStep == \E k \in 1..Len(workers) : RunEnds(k)

NextWorkers == AddTask \/ BeginRunStep \/ EndRunStep

SpecWorkers == InitWorkers /\ [][NextWorkers]_vars

\* ================================================================= startup
\* main.lifespan up to its `yield`, over the jobs table a previous process
\* left behind.  routes.py keeps its jobs in the in-memory map, which
\* starts empty; the table is reached through services/database.py only.
\*   startup.jobs      the stored status of each job of the table
\*   startup.running   the jobs for which a pipeline run is in progress
\*   startup.database  "closed", "ready" or "degraded"

\* bound on the number of jobs in the table
MaxStoredJobs == 3

\* Statuses a job of the table may have been left in.
StoredStatuses == {"pending", "embedding", "completed", "failed"}

\* DatabaseService.get_active_jobs: the jobs whose status is not one of
\* completed, failed, cancelled.
GetActiveJobs(jobs) ==
    {k \in 1..Len(jobs) : jobs[k] \notin {"completed", "failed", "cancelled"}}

InitStartup ==
    /\ ServiceInit /\ retry = RetryIdle /\ sink = SinkIdle /\ embed_call = EmbedIdle
       /\ store_call = StoreIdle /\ lock_run = LockIdle /\ workers = WorkersIdle
       /\ listing = ListingIdle /\ db_query = QueryIdle /\ scrape = ScrapeIdle
       /\ trace = TraceIdle /\ got = GotIdle /\ chunk_call = ChunkIdle
       /\ provider = ProviderIdle /\ clean_call = CleanIdle /\ crawl = CrawlIdle
       /\ limiter = LimiterIdle /\ hybrid = HybridIdle /\ scheduled = ScheduledIdle
    /\ \E n \in 0..MaxStoredJobs : \E jobs \in [1..n -> StoredStatuses] :
          startup = [phase |-> "api_key", jobs |-> jobs, running |-> {},
                     database |-> "closed"]

\* lifespan: the OpenAI key is missing (warning), malformed (ValueError,
\* the start fails) or valid.
VerifyApiKey(key) ==
    /\ startup.phase = "api_key"
    /\ startup' = [startup EXCEPT
            !.phase = IF key = "malformed" THEN "failed" ELSE "dataforge"]
    /\ UNCHANGED <<service, retry, sink, embed_call, store_call, lock_run, workers, listing, db_query, scrape, trace, got, chunk_call, provider, clean_call, crawl, limiter, hybrid, scheduled>>

\* lifespan: DataForge health check; the start goes on either way.
VerifyDataForge ==
    /\ startup.phase = "dataforge"
    /\ startup' = [startup EXCEPT !.phase = "database"]
    /\ UNCHANGED <<service, retry, sink, embed_call, store_call, lock_run, workers, listing, db_query, scrape, trace, got, chunk_call, provider, clean_call, crawl, limiter, hybrid, scheduled>>

\* lifespan: db.init() and db.health_check(); an exception is logged and
\* the start goes on without the database.  No job is read or written.
InitDatabase(ok) ==
    /\ startup.phase = "database"
    /\ startup' = [startup EXCEPT
            !.phase = "scheduler",
            !.database = IF ok THEN "ready" ELSE "degraded"]
    /\ UNCHANGED <<service, retry, sink, embed_call, store_call, lock_run, workers, listing, db_query, scrape, trace, got, chunk_call, provider, clean_call, crawl, limiter, hybrid, scheduled>>

\* lifespan: the scheduler branch only logs; then `yield`, the service
\* accepts requests.
Serve ==
    /\ startup.phase = "scheduler"
    /\ startup' = [startup EXCEPT !.phase = "serving"]
    /\ UNCHANGED <<service, retry, sink, embed_call, store_call, lock_run, workers, listing, db_query, scrape, trace, got, chunk_call, provider, clean_call, crawl, limiter, hybrid, scheduled>>

ApiKeyStep == \E key \in {"missing", "malformed", "valid"} : VerifyApiKey(key)
DatabaseStep == \E ok \in BOOLEAN : InitDatabase(ok)

NextStartup == ApiKeyStep \/ VerifyDataForge \/ DatabaseStep \/ Serve

SpecStartup == InitStartup /\ [][NextStartup]_vars

\* ============================================================== job listing
\* _list_jobs (api/routes.py) over the in-memory map and
\* DatabaseService.list_jobs (services/database.py) over the jobs table.  A
\* row is named by its position in `rows`: the insertion order of the map,
\* the physical order of the table.

\* bound on the number of job rows
MaxRows == 3

\* bound on the page number requested
MaxPage == 3

\* page sizes requested: Query(10, ge=1, le=100)
PageSizes == 1..2

\* tenants and statuses of the rows, and their created_at stamps
Tenants == {"tenant-a", "tenant-b"}
ListedStatuses == {"pending", "completed"}
Stamps == 1..2

JobRows == [tenant_id : Tenants, status : ListedStatuses, created_at : Stamps]

\* `if tenant_id:` / `if status:` followed by the comparison: a filter that
\* is None keeps every row.
FilterRows(rows, idx, tenant_id, status) ==
    LET by_tenant == IF tenant_id # None
                     THEN SelectSeq(idx, LAMBDA k : rows[k].tenant_id = tenant_id[1])
                     ELSE idx
    IN  IF status # None
        THEN SelectSeq(by_tenant, LAMBDA k : rows[k].status = status[1])
        ELSE by_tenant

\* jobs.sort(key=created_at, reverse=True): descending and stable, rows of
\* equal created_at keep the order they had.
RECURSIVE SortCreatedAtDesc(_, _)
SortCreatedAtDesc(rows, idx) ==
    IF idx = <<>> THEN <<>>
    ELSE LET last == idx[Len(idx)]
             rest == SortCreatedAtDesc(rows, SubSeq(idx, 1, Len(idx) - 1))
         IN  SelectSeq(rest, LAMBDA k : rows[k].created_at >= rows[last].created_at)
             \o <<last>>
             \o SelectSeq(rest, LAMBDA k : rows[k].created_at < rows[last].created_at)

\* order_by(desc(Job.created_at)): the orders the database may produce,
\* rows of equal created_at in any order.
OrderByCreatedAtDesc(rows, idx) ==
    LET n == Len(idx)
    IN  {s \in [1..n -> {idx[k] : k \in 1..n}] :
            /\ \A a, b \in 1..n : a # b => s[a] # s[b]
            /\ \A a \in 1..n - 1 : rows[s[a]].created_at >= rows[s[a + 1]].created_at}

\* start = (page - 1) * page_size; offset((page - 1) * page_size)
\* (variant: the page after)
SliceStartNext(page, page_size) == page * page_size
SliceStart(page, page_size) == (page - 1) * page_size

\* jobs[start:end] with end = start + page_size; offset(start).limit(page_size)
Paginate(jobs, page, page_size) ==
    LET start == SliceStart(page, page_size)
    IN  SubSeq(jobs, start + 1, Min(start + page_size, Len(jobs)))

AllRows(rows) == [k \in 1..Len(rows) |-> k]

\* The map is filled by submit_job with created_at = utcnow(), so its
\* insertion order never goes back in time; a table has no such order.
InitListing ==
    /\ ServiceInit /\ retry = RetryIdle /\ sink = SinkIdle /\ embed_call = EmbedIdle
       /\ store_call = StoreIdle /\ lock_run = LockIdle /\ workers = WorkersIdle
       /\ startup = StartupIdle /\ db_query = QueryIdle /\ scrape = ScrapeIdle
       /\ trace = TraceIdle /\ got = GotIdle /\ chunk_call = ChunkIdle
       /\ provider = ProviderIdle /\ clean_call = CleanIdle /\ crawl = CrawlIdle
       /\ limiter = LimiterIdle /\ hybrid = HybridIdle /\ scheduled = ScheduledIdle
    /\ \E n \in 0..MaxRows, kind \in {"memory", "database"} : \E rows \in [1..n -> JobRows] :
          /\ kind = "memory" =>
                \A k \in 1..n - 1 : rows[k].created_at <= rows[k + 1].created_at
          /\ listing = [ListingIdle EXCEPT !.pos = "input", !.kind = kind, !.rows = rows]

\* _list_jobs
ListJobsMemory(tenant_id, status, page, page_size) ==
    /\ listing.pos = "input" /\ listing.kind = "memory"
    /\ LET jobs == SortCreatedAtDesc(listing.rows,
                       FilterRows(listing.rows, AllRows(listing.rows), tenant_id, status))
       IN  listing' = [listing EXCEPT
               !.pos = "returned", !.tenant_id = tenant_id, !.status = status,
               !.page = page, !.page_size = page_size,
               !.out = Paginate(jobs, page, page_size), !.total = Len(jobs)]
    /\ UNCHANGED <<service, retry, sink, embed_call, store_call, lock_run, workers, startup, db_query, scrape, trace, got, chunk_call, provider, clean_call, crawl, limiter, hybrid, scheduled>>

\* DatabaseService.list_jobs: count of the filtered query, then the ordered
\* page; an SQLAlchemyError is logged and ([], 0) is returned.
ListJobsDatabase(ok, tenant_id, status, page, page_size) ==
    /\ listing.pos = "input" /\ listing.kind = "database"
    /\ LET matching == FilterRows(listing.rows, AllRows(listing.rows), tenant_id, status)
       IN  \E jobs \in OrderByCreatedAtDesc(listing.rows, matching) :
              listing' = [listing EXCEPT
                  !.pos = "returned", !.tenant_id = tenant_id, !.status = status,
                  !.page = page, !.page_size = page_size, !.failed = ~ok,
                  !.out = IF ok THEN Paginate(jobs, page, page_size) ELSE <<>>,
                  !.total = IF ok THEN Len(matching) ELSE 0]
    /\ UNCHANGED <<service, retry, sink, embed_call, store_call, lock_run, workers, startup, db_query, scrape, trace, got, chunk_call, provider, clean_call, crawl, limiter, hybrid, scheduled>>

TenantFilters == {None} \cup {Some(t) : t \in Tenants}
StatusFilters == {None} \cup {Some(s) : s \in ListedStatuses}

ListMemoryStep ==
    \E t \in TenantFilters, s \in StatusFilters, p \in 1..MaxPage, ps \in PageSizes :
        ListJobsMemory(t, s, p, ps)

ListDatabaseStep ==
    \E ok \in BOOLEAN, t \in TenantFilters, s \in StatusFilters,
       p \in 1..MaxPage, ps \in PageSizes :
        ListJobsDatabase(ok, t, s, p, ps)

NextListing == ListMemoryStep \/ ListDatabaseStep

SpecListing == InitListing /\ [][NextListing]_vars

\* =========================================================== database query
\* DatabaseQueryAdapter.fetch (sources/database_query.py): _validate_input,
\* then _get_engine, then _execute_query.  A query is the sequence of its
\* pieces, each a blank or a word; a connection string is its scheme
\* followed by the rest.

\* bound on the number of pieces of a query
MaxQueryLen == 3

\* the pieces queries are made of
QueryPieces == {" ", "SELECT", "select", "DROP", "update", "x"}

\* str.upper on a piece
UpperOf ==
    [p \in QueryPieces |->
        CASE p = "select" -> "SELECT"
          [] p = "update" -> "UPDATE"
          [] p = "x" -> "X"
          [] OTHER -> p]

Upper(q) == [k \in 1..Len(q) |-> UpperOf[q[k]]]

\* str.strip
RECURSIVE LStrip(_)
LStrip(q) == IF q # <<>> /\ q[1] = " " THEN LStrip(Tail(q)) ELSE q

RECURSIVE RStrip(_)
RStrip(q) ==
    IF q # <<>> /\ q[Len(q)] = " " THEN RStrip(SubSeq(q, 1, Len(q) - 1)) ELSE q

Strip(q) == LStrip(RStrip(q))

\* query_upper.startswith("SELECT")
StartsWithSelect(q) == q # <<>> /\ q[1] = "SELECT"

\* dangerous_keywords, and `keyword in query_upper`
DangerousKeywords == {"DROP", "DELETE", "INSERT", "UPDATE", "TRUNCATE", "ALTER"}
ContainsKeyword(q) == \E k \in 1..Len(q) : q[k] \in DangerousKeywords

\* query_upper.split(): the number of words, a word being a longest run of
\* pieces that are not blank; split()[0] raises IndexError when there is none.
SplitCount(q) ==
    Cardinality({k \in 1..Len(q) : q[k] # " " /\ (k = 1 \/ q[k - 1] = " ")})

\* the connection strings given: none, a supported scheme, another scheme
ConnectionStrings ==
    {<<>>, <<"postgresql://", "localhost/db">>, <<"ftp://", "localhost/db">>}

\* connection_string.startswith(("postgresql://", "mysql://", "sqlite:///"))
SupportedScheme(c) == c[1] \in {"postgresql://", "mysql://", "sqlite:///"}

\* _validate_input: the exception it raises, "none" when it returns.
ValidateInput(read_only, connection_string, query) ==
    IF connection_string = <<>> THEN "ValidationError"
    ELSE IF query = <<>> THEN "ValidationError"
    ELSE IF ~SupportedScheme(connection_string) THEN "ValidationError"
    ELSE IF ~read_only THEN "none"
    ELSE LET query_upper == Upper(Strip(query))
         IN  IF ~StartsWithSelect(query_upper)
             THEN IF SplitCount(query_upper) = 0 THEN "IndexError"
                  ELSE "ValidationError"
             ELSE IF ContainsKeyword(query_upper) THEN "ValidationError"
             ELSE "none"

Queries == UNION {[1..n -> QueryPieces] : n \in 0..MaxQueryLen}

InitQuery ==
    /\ ServiceInit /\ retry = RetryIdle /\ sink = SinkIdle /\ embed_call = EmbedIdle
       /\ store_call = StoreIdle /\ lock_run = LockIdle /\ workers = WorkersIdle
       /\ startup = StartupIdle /\ listing = ListingIdle /\ scrape = ScrapeIdle
       /\ trace = TraceIdle /\ got = GotIdle /\ chunk_call = ChunkIdle
       /\ provider = ProviderIdle /\ clean_call = CleanIdle /\ crawl = CrawlIdle
       /\ limiter = LimiterIdle /\ hybrid = HybridIdle /\ scheduled = ScheduledIdle
    /\ \E read_only \in BOOLEAN, c \in ConnectionStrings, q \in Queries :
          db_query = [QueryIdle EXCEPT !.pos = "input", !.read_only = read_only,
                                       !.connection_string = c, !.query = q]

\* fetch: `await self._validate_input(...)`, outside the try block.
QueryValidate ==
    /\ db_query.pos = "input"
    /\ LET e == ValidateInput(db_query.read_only, db_query.connection_string,
                              db_query.query)
       IN  db_query' = [db_query EXCEPT
               !.pos = IF e = "none" THEN "validated" ELSE "raised", !.error = e]
    /\ UNCHANGED <<service, retry, sink, embed_call, store_call, lock_run, workers, startup, listing, scrape, trace, got, chunk_call, provider, clean_call, crawl, limiter, hybrid, scheduled>>

\* fetch: _get_engine creates the engine of the connection string;
\* SQLAlchemyError becomes FetchError.
GetEngine(ok) ==
    /\ db_query.pos = "validated"
    /\ db_query' = IF ok
                   THEN [db_query EXCEPT !.pos = "engine", !.engines = 1]
                   ELSE [db_query EXCEPT !.pos = "raised", !.error = "FetchError"]
    /\ UNCHANGED <<service, retry, sink, embed_call, store_call, lock_run, workers, startup, listing, scrape, trace, got, chunk_call, provider, clean_call, crawl, limiter, hybrid, scheduled>>

\* fetch: _execute_query in the executor and the conversion of its rows; any
\* exception becomes FetchError.
ExecuteQuery(ok) ==
    /\ db_query.pos = "engine"
    /\ db_query' = IF ok
                   THEN [db_query EXCEPT !.pos = "returned"]
                   ELSE [db_query EXCEPT !.pos = "raised", !.error = "FetchError"]
    /\ UNCHANGED <<service, retry, sink, embed_call, store_call, lock_run, workers, startup, listing, scrape, trace, got, chunk_call, provider, clean_call, crawl, limiter, hybrid, scheduled>>

EngineStep == \E ok \in BOOLEAN : GetEngine(ok)
ExecuteStep == \E ok \in BOOLEAN : ExecuteQuery(ok)

NextQuery == QueryValidate \/ EngineStep \/ ExecuteStep

SpecQuery == InitQuery /\ [][NextQuery]_vars

\* =============================================================== URL scrape
\* URLScrapeAdapter.fetch (sources/url_scrape.py) in its two modes, with
\* _check_robots_txt.  A URL is the sequence of the segments of its path;
\* robots.txt is the status of its request and the Disallow paths of the
\* sections that apply to the adapter's user agent.

\* bound on the number of URLs of a sitemap
MaxUrls == 3

UrlPaths == {<<"public">>, <<"private">>, <<"private", "a">>}

DisallowPaths == {<<>>, <<"private">>}

RobotsFiles ==
    [status : {"200", "404", "error"}, disallow : SUBSET DisallowPaths]

\* parsed.path.startswith(path)
StartsWith(path, prefix) ==
    /\ Len(prefix) <= Len(path)
    /\ \A k \in 1..Len(prefix) : path[k] = prefix[k]

\* _check_robots_txt: True without respect_robots, when robots.txt is not
\* answered with 200 or its request raises; False when a Disallow path that
\* is not empty is a prefix of the URL's path.
\* (variant: every URL is allowed)
CheckRobotsTxtPermissive(respect_robots, robots, url) == TRUE
CheckRobotsTxt(respect_robots, robots, url) ==
    \/ ~respect_robots
    \/ robots.status # "200"
    \/ ~\E path \in robots.disallow : path # <<>> /\ StartsWith(url, path)

InitScrape ==
    /\ ServiceInit /\ retry = RetryIdle /\ sink = SinkIdle /\ embed_call = EmbedIdle
       /\ store_call = StoreIdle /\ lock_run = LockIdle /\ workers = WorkersIdle
       /\ startup = StartupIdle /\ listing = ListingIdle /\ db_query = QueryIdle
       /\ trace = TraceIdle /\ got = GotIdle /\ chunk_call = ChunkIdle
       /\ provider = ProviderIdle /\ clean_call = CleanIdle /\ crawl = CrawlIdle
       /\ limiter = LimiterIdle /\ hybrid = HybridIdle /\ scheduled = ScheduledIdle
    /\ \E respect_robots \in BOOLEAN, robots \in RobotsFiles,
          mode \in {"single", "sitemap"}, n \in 0..MaxUrls :
          \E urls \in [1..n -> UrlPaths] :
             /\ mode = "single" => n = 1
             /\ scrape = [ScrapeIdle EXCEPT
                    !.pos = IF mode = "single" THEN "url" ELSE "sitemap",
                    !.mode = mode, !.respect_robots = respect_robots,
                    !.robots = robots, !.urls = urls]

\* fetch, `elif url:` branch up to the return: a disallowed URL raises
\* FetchError, as does a failed request; otherwise one document is returned.
FetchSingleUrl(ok) ==
    /\ scrape.pos = "url"
    /\ LET url == scrape.urls[1]
       IN  scrape' =
             IF ~CheckRobotsTxt(scrape.respect_robots, scrape.robots, url)
             THEN [scrape EXCEPT !.pos = "raised", !.error = "robots"]
             ELSE IF ~ok
             THEN [scrape EXCEPT !.pos = "raised", !.error = "fetch"]
             ELSE [scrape EXCEPT !.pos = "returned", !.documents = <<url>>]
    /\ UNCHANGED <<service, retry, sink, embed_call, store_call, lock_run, workers, startup, listing, db_query, trace, got, chunk_call, provider, clean_call, crawl, limiter, hybrid, scheduled>>

\* fetch, `if sitemap_url:` branch: _parse_sitemap returns the URLs or
\* raises FetchError.
ParseSitemap(ok) ==
    /\ scrape.pos = "sitemap"
    /\ scrape' = IF ok
                 THEN [scrape EXCEPT !.pos = "pages", !.next = 1]
                 ELSE [scrape EXCEPT !.pos = "raised", !.error = "sitemap"]
    /\ UNCHANGED <<service, retry, sink, embed_call, store_call, lock_run, workers, startup, listing, db_query, trace, got, chunk_call, provider, clean_call, crawl, limiter, hybrid, scheduled>>

\* One turn of `for page_url in urls`: a disallowed URL and a URL already
\* visited are passed over; FetchError of the page is logged and the loop
\* goes on; any other exception leaves the loop and becomes FetchError.
SitemapPage(outcome) ==
    /\ scrape.pos = "pages" /\ scrape.next <= Len(scrape.urls)
    /\ LET url == scrape.urls[scrape.next]
           on == [scrape EXCEPT !.next = @ + 1]
       IN  scrape' =
             IF ~CheckRobotsTxt(scrape.respect_robots, scrape.robots, url)
             THEN [on EXCEPT !.skipped = @ \cup {url}]
             ELSE IF url \in scrape.visited
             THEN on
             ELSE IF outcome = "ok"
             THEN [on EXCEPT !.visited = @ \cup {url}, !.documents = Append(@, url)]
             ELSE IF outcome = "FetchError"
             THEN [on EXCEPT !.visited = @ \cup {url}, !.page_errors = @ + 1]
             ELSE [scrape EXCEPT !.visited = @ \cup {url}, !.pos = "raised",
                                 !.error = "unexpected"]
    /\ UNCHANGED <<service, retry, sink, embed_call, store_call, lock_run, workers, startup, listing, db_query, trace, got, chunk_call, provider, clean_call, crawl, limiter, hybrid, scheduled>>

\* fetch after the loop: `if not documents: raise FetchError("No documents
\* were successfully fetched")`, else the documents are returned.
SitemapReturn ==
    /\ scrape.pos = "pages" /\ scrape.next > Len(scrape.urls)
    /\ scrape' = IF scrape.documents = <<>>
                 THEN [scrape EXCEPT !.pos = "raised", !.error = "no_documents"]
                 ELSE [scrape EXCEPT !.pos = "returned"]
    /\ UNCHANGED <<service, retry, sink, embed_call, store_call, lock_run, workers, startup, listing, db_query, trace, got, chunk_call, provider, clean_call, crawl, limiter, hybrid, scheduled>>

SingleUrlStep == \E ok \in BOOLEAN : FetchSingleUrl(ok)
SitemapStep == \E ok \in BOOLEAN : ParseSitemap(ok)
PageStep == \E outcome \in {"ok", "FetchError", "other"} : SitemapPage(outcome)

NextScrape == SingleUrlStep \/ SitemapStep \/ PageStep \/ SitemapReturn

SpecScrape == InitScrape /\ [][NextScrape]_vars

\* =========================================================== correlation id
\* One POST /api/v1/jobs through the add_correlation_id middleware (main.py)
\* and submit_job (api/routes.py).

\* values a client sends in X-Correlation-ID; the empty value is falsy
HeaderValues == {"", "trace-a", "trace-b"}

\* values str(uuid4()) may return
Uuids == {"uuid-1", "uuid-2", "uuid-3", "uuid-4"}

InitTrace ==
    /\ ServiceInit /\ retry = RetryIdle /\ sink = SinkIdle /\ embed_call = EmbedIdle
       /\ store_call = StoreIdle /\ lock_run = LockIdle /\ workers = WorkersIdle
       /\ startup = StartupIdle /\ listing = ListingIdle /\ db_query = QueryIdle
       /\ scrape = ScrapeIdle /\ got = GotIdle /\ chunk_call = ChunkIdle
       /\ provider = ProviderIdle /\ clean_call = CleanIdle /\ crawl = CrawlIdle
       /\ limiter = LimiterIdle /\ hybrid = HybridIdle /\ scheduled = ScheduledIdle
    /\ \E header \in {None} \cup {Some(h) : h \in HeaderValues}, valid \in BOOLEAN :
          trace = [TraceIdle EXCEPT !.pos = "received", !.header = header,
                                    !.valid = valid]

\* add_correlation_id before call_next:
\* request.headers.get("X-Correlation-ID") or str(uuid4())
MiddlewareIn(uuid) ==
    /\ trace.pos = "received"
    /\ trace' = [trace EXCEPT
            !.pos = "handler",
            !.state = IF trace.header # None /\ trace.header[1] # ""
                      THEN trace.header ELSE Some(uuid)]
    /\ UNCHANGED <<service, retry, sink, embed_call, store_call, lock_run, workers, startup, listing, db_query, scrape, got, chunk_call, provider, clean_call, crawl, limiter, hybrid, scheduled>>

\* submit_job: correlation_id = str(uuid4()); 400 for a missing source
\* parameter, else job_data with that correlation_id is stored.
SubmitJobCorrelation(uuid) ==
    /\ trace.pos = "handler"
    /\ trace' = [trace EXCEPT
            !.pos = "handled",
            !.job = IF trace.valid THEN Some(uuid) ELSE None]
    /\ UNCHANGED <<service, retry, sink, embed_call, store_call, lock_run, workers, startup, listing, db_query, scrape, got, chunk_call, provider, clean_call, crawl, limiter, hybrid, scheduled>>

\* add_correlation_id after call_next:
\* response.headers["X-Correlation-ID"] = correlation_id
MiddlewareOut ==
    /\ trace.pos = "handled"
    /\ trace' = [trace EXCEPT !.pos = "responded", !.response = trace.state]
    /\ UNCHANGED <<service, retry, sink, embed_call, store_call, lock_run, workers, startup, listing, db_query, scrape, got, chunk_call, provider, clean_call, crawl, limiter, hybrid, scheduled>>

MiddlewareInStep == \E uuid \in Uuids : MiddlewareIn(uuid)
SubmitCorrelationStep == \E uuid \in Uuids : SubmitJobCorrelation(uuid)

NextTrace == MiddlewareInStep \/ SubmitCorrelationStep \/ MiddlewareOut

SpecTrace == InitTrace /\ [][NextTrace]_vars

\* ============================================================ reading a job
\* get_job (api/routes.py) beside the handlers and the runner of Spec.  The
\* part `got` keeps the status the last GET reported, and the jobs for
\* which a DELETE has returned 204.

\* get_job: 404 for an unknown job, else JobResponse(**job_data) with the
\* status the record has at that moment.
GetJob(j) ==
    /\ http' = Respond("get", j, IF InStore(j) THEN 200 ELSE 404)
    /\ got' = [got EXCEPT !.job = j,
                          !.status = IF InStore(j) THEN job_store[j].status ELSE "none",
                          !.after_delete = j \in got.deleted]
    /\ UNCHANGED <<job_store, pc, job, attempt, invoked, chunks, embeddings, emitted>>
    /\ UNCHANGED <<retry, sink, embed_call, store_call, lock_run, workers, startup,
                   listing, db_query, scrape, trace, chunk_call, provider, clean_call, crawl, limiter, hybrid, scheduled>>

\* cancel_job, the 204 answer noted.
CancelNoted(j) ==
    /\ CancelJob(j)
    /\ got' = IF http'.code = 204 THEN [got EXCEPT !.deleted = @ \cup {j}] ELSE got
    /\ UNCHANGED <<retry, sink, embed_call, store_call, lock_run, workers, startup,
                   listing, db_query, scrape, trace, chunk_call, provider, clean_call, crawl, limiter, hybrid, scheduled>>

Get == \E j \in JobIds : GetJob(j)
Delete == \E j \in JobIds : CancelNoted(j)

NextGet == Submit \/ Delete \/ Get \/ Start \/ Fetch \/ Clean \/ Chunk \/ Embed \/ Store

SpecGet == Init /\ [][NextGet]_vars

\* ============================================================== chunk stage
\* ChunkStage._create_chunks (pipeline/chunk.py) on one cleaned document.
\* Only lengths matter to it: a document is the sequence of its paragraphs,
\* a paragraph the sequence of the lengths in characters of its sentences;
\* sentences are parted by one blank, paragraphs by "\n\n".

\* bound on the number of paragraphs of a document
MaxParagraphs == 2

\* bound on the number of sentences of a paragraph
MaxSentences == 2

\* settings.CHUNK_SIZE, settings.CHUNK_OVERLAP and the min_chunk_size default
DefaultChunkSize == 500
DefaultOverlap == 50
DefaultMinChunkSize == 50

\* _estimate_tokens: max(1, len(text) // 4)
CharsPerToken == 4
EstimateTokens(len) == IF len \div CharsPerToken >= 1 THEN len \div CharsPerToken ELSE 1

RECURSIVE SumSeq(_)
SumSeq(s) == IF s = <<>> THEN 0 ELSE Head(s) + SumSeq(Tail(s))

\* len(sep.join(parts)) for parts of the lengths given
JoinLen(lens, sep) == IF lens = <<>> THEN 0 ELSE SumSeq(lens) + sep * (Len(lens) - 1)

\* lengths of the sentences documents are made of
SentenceLens == {3, 12}

Paragraphs == UNION {[1..n -> SentenceLens] : n \in 1..MaxSentences}
Documents == UNION {[1..n -> Paragraphs] : n \in 1..MaxParagraphs}

\* ChunkStage() as the orchestrator builds it, and stages built with small
\* sizes: ChunkStage(chunk_size, overlap, respect_sentences,
\* respect_paragraphs, min_chunk_size) with overlap < chunk_size.
DefaultChunkConfig ==
    [chunk_size |-> DefaultChunkSize, overlap |-> DefaultOverlap,
     min_chunk_size |-> DefaultMinChunkSize,
     respect_sentences |-> TRUE, respect_paragraphs |-> TRUE]

ChunkConfigs ==
    {DefaultChunkConfig} \cup
    [chunk_size : {2}, overlap : {0, 1}, min_chunk_size : {1, 2},
     respect_sentences : BOOLEAN, respect_paragraphs : BOOLEAN]

RECURSIVE Flatten(_)
Flatten(doc) == IF doc = <<>> THEN <<>> ELSE Head(doc) \o Flatten(Tail(doc))

\* _create_chunks: the segments, each with its length and the sentences
\* _split_into_sentences finds in it.
Segments(doc, cfg) ==
    IF cfg.respect_paragraphs
    THEN [k \in 1..Len(doc) |-> [len |-> JoinLen(doc[k], 1), sentences |-> doc[k]]]
    ELSE IF cfg.respect_sentences
    THEN LET all == Flatten(doc)
         IN  [k \in 1..Len(all) |-> [len |-> all[k], sentences |-> <<all[k]>>]]
    ELSE <<[len |-> JoinLen([k \in 1..Len(doc) |-> JoinLen(doc[k], 1)], 2),
            sentences |-> Flatten(doc)]>>

\* models/document.py Chunk: content min_length 1, token_count >= 1,
\* start_char >= 0, end_char > 0 and end_char > start_char.
\* (variant: no validation)
ChunkAcceptsAnything(c) == TRUE
ChunkAccepts(c) ==
    /\ c.len >= 1 /\ c.token_count >= 1
    /\ c.start_char >= 0 /\ c.end_char > 0 /\ c.end_char > c.start_char

\* chunks.append(self._create_chunk(...)): Chunk(...) raises when a field
\* is invalid, which ends _create_chunks.
AppendChunk(st, len, start_char, end_char) ==
    LET c == [len |-> len, token_count |-> EstimateTokens(len),
              start_char |-> start_char, end_char |-> end_char]
    IN  IF st.raised THEN st
        ELSE IF ChunkAccepts(c) THEN [st EXCEPT !.chunks = Append(@, c)]
        ELSE [st EXCEPT !.raised = TRUE]

\* "Save current chunk": the text joined with sep, ending at char_offset.
SaveCurrent(st, sep) ==
    LET len == JoinLen(st.current, sep)
    IN  AppendChunk(st, len, st.offset - len, st.offset)

\* seq[-k:]
LastK(seq, k) ==
    IF k = 0 \/ k >= Len(seq) THEN seq ELSE SubSeq(seq, Len(seq) - k + 1, Len(seq))

\* the loop over the sentences of a segment larger than chunk_size
RECURSIVE SentenceLoop(_, _, _)
SentenceLoop(st, sentences, cfg) ==
    IF sentences = <<>> THEN st
    ELSE LET sentence == Head(sentences)
             sentence_tokens == EstimateTokens(sentence)
             st1 ==
               IF st.tokens + sentence_tokens > cfg.chunk_size /\ st.current # <<>>
               THEN LET saved == SaveCurrent(st, 1)
                        overlap_text == JoinLen(LastK(st.current, cfg.overlap \div 4), 1)
                    IN  IF cfg.overlap > 0
                        THEN [saved EXCEPT !.current = <<overlap_text, sentence>>,
                                 !.tokens = EstimateTokens(overlap_text) + sentence_tokens]
                        ELSE [saved EXCEPT !.current = <<sentence>>,
                                           !.tokens = sentence_tokens]
               ELSE [st EXCEPT !.current = Append(@, sentence),
                               !.tokens = @ + sentence_tokens]
         IN  SentenceLoop(st1, Tail(sentences), cfg)

\* the character-based split of a segment larger than chunk_size
RECURSIVE CharacterLoop(_, _, _, _)
CharacterLoop(st, len, i, cfg) ==
    IF i >= len THEN st
    ELSE LET step == cfg.chunk_size * CharsPerToken
             piece == IF len - i < step THEN len - i ELSE step
         IN  CharacterLoop(AppendChunk(st, piece, st.offset + i, st.offset + i + piece),
                           len, i + step, cfg)

\* one turn of `for segment in segments`
SegmentTurn(st, segment, cfg) ==
    LET sep == IF cfg.respect_sentences THEN 1 ELSE 2
        segment_tokens == EstimateTokens(segment.len)
        moved(s) == [s EXCEPT !.offset = @ + segment.len + 2]
    IN  IF segment_tokens > cfg.chunk_size
        THEN LET st1 == IF st.current # <<>>
                        THEN [SaveCurrent(st, sep) EXCEPT !.current = <<>>, !.tokens = 0]
                        ELSE st
             IN  moved(IF cfg.respect_sentences
                       THEN SentenceLoop(st1, segment.sentences, cfg)
                       ELSE CharacterLoop(st1, segment.len, 0, cfg))
        ELSE IF st.tokens + segment_tokens <= cfg.chunk_size
        THEN moved([st EXCEPT !.current = Append(@, segment.len),
                              !.tokens = @ + segment_tokens])
        ELSE LET saved == IF st.current # <<>> THEN SaveCurrent(st, sep) ELSE st
                 quarter == Len(st.current) \div 4
                 kept == LastK(st.current, IF quarter >= 1 THEN quarter ELSE 1)
                        \o <<segment.len>>
             IN  moved(IF cfg.overlap > 0 /\ st.current # <<>>
                       THEN [saved EXCEPT !.current = kept,
                                !.tokens = SumSeq([k \in 1..Len(kept) |->
                                                     EstimateTokens(kept[k])])]
                       ELSE [saved EXCEPT !.current = <<segment.len>>,
                                          !.tokens = segment_tokens])

RECURSIVE SegmentLoop(_, _, _)
SegmentLoop(st, segments, cfg) ==
    IF segments = <<>> \/ st.raised THEN st
    ELSE SegmentLoop(SegmentTurn(st, Head(segments), cfg), Tail(segments), cfg)

\* "Save final chunk", only when it reaches min_chunk_size tokens
SaveFinal(st, cfg) ==
    LET sep == IF cfg.respect_sentences THEN 1 ELSE 2
        len == JoinLen(st.current, sep)
    IN  IF st.current # <<>> /\ EstimateTokens(len) >= cfg.min_chunk_size
        THEN AppendChunk(st, len, IF st.offset - len > 0 THEN st.offset - len ELSE 0,
                         st.offset)
        ELSE st

\* _create_chunks
CreateChunks(doc, cfg) ==
    SaveFinal(SegmentLoop([chunks |-> <<>>, current |-> <<>>, tokens |-> 0,
                           offset |-> 0, raised |-> FALSE],
                          Segments(doc, cfg), cfg), cfg)

InitChunk ==
    /\ ServiceInit /\ retry = RetryIdle /\ sink = SinkIdle /\ embed_call = EmbedIdle
       /\ store_call = StoreIdle /\ lock_run = LockIdle /\ workers = WorkersIdle
       /\ startup = StartupIdle /\ listing = ListingIdle /\ db_query = QueryIdle
       /\ scrape = ScrapeIdle /\ trace = TraceIdle /\ got = GotIdle
       /\ provider = ProviderIdle /\ clean_call = CleanIdle /\ crawl = CrawlIdle
       /\ limiter = LimiterIdle /\ hybrid = HybridIdle /\ scheduled = ScheduledIdle
    /\ \E doc \in Documents, cfg \in ChunkConfigs :
          chunk_call = [ChunkIdle EXCEPT !.pos = "input", !.config = cfg,
                                         !.document = doc]

\* ChunkStage.execute on one document: the chunks are returned, or the
\* exception of _create_chunks is raised as ChunkStageError.
ChunkExecute ==
    /\ chunk_call.pos = "input"
    /\ LET st == CreateChunks(chunk_call.document, chunk_call.config)
       IN  chunk_call' = IF st.raised
                         THEN [chunk_call EXCEPT !.pos = "raised"]
                         ELSE [chunk_call EXCEPT !.pos = "returned", !.out = st.chunks]
    /\ UNCHANGED <<service, retry, sink, embed_call, store_call, lock_run, workers, startup, listing, db_query, scrape, trace, got, provider, clean_call, crawl, limiter, hybrid, scheduled>>

NextChunk == ChunkExecute

SpecChunk == InitChunk /\ [][NextChunk]_vars

\* ======================================================= embedding provider
\* EmbeddingService.generate_embeddings (services/embedding_service.py) call
\* by call: the loop over the batches, _generate_batch_with_retry inside it
\* and the request of _generate_batch to the provider.  EmbedStage.execute
\* calls generate_embeddings once.
\*   provider.n          len(texts)
\*   provider.i          loop variable of generate_embeddings
\*   provider.attempt    loop variable of _generate_batch_with_retry
\*   provider.in_flight  requests sent to the provider and not yet answered
\*   provider.log        the requests and their answers, in order

\* batch_num = i // batch_size + 1
BatchNum(p) == p.i \div p.batch_size + 1

LogEntry(kind, p) == [kind |-> kind, batch |-> BatchNum(p), attempt |-> p.attempt]

\* _generate_batch: await client.embeddings.create(input=texts, model=model);
\* the coroutine is suspended until the provider answers.
\* (variant: the request is started as a task and the loop goes on)
CreateEmbeddingsTask(p) ==
    [p EXCEPT !.in_flight = @ + 1, !.log = Append(@, LogEntry("request", p)),
              !.i = @ + p.batch_size]
CreateEmbeddings(p) ==
    [p EXCEPT !.in_flight = @ + 1, !.log = Append(@, LogEntry("request", p)),
              !.pos = "awaiting"]

\* The answer arrives.  A good one ends _generate_batch_with_retry: the
\* vectors are appended and the loop of generate_embeddings moves on by
\* batch_size.  A failed one is retried after a sleep while attempt <
\* max_retries, else EmbeddingError is raised.
BatchAnswered(p, ok) ==
    LET q == [p EXCEPT !.in_flight = @ - 1, !.log = Append(@, LogEntry("answer", p))]
    IN  IF ok THEN [q EXCEPT !.i = @ + p.batch_size, !.attempt = 1, !.pos = "loop"]
        ELSE IF p.attempt < p.max_retries THEN [q EXCEPT !.pos = "sleeping"]
        ELSE [q EXCEPT !.pos = "raised"]

InitProvider ==
    /\ ServiceInit /\ retry = RetryIdle /\ sink = SinkIdle /\ embed_call = EmbedIdle
       /\ store_call = StoreIdle /\ lock_run = LockIdle /\ workers = WorkersIdle
       /\ startup = StartupIdle /\ listing = ListingIdle /\ db_query = QueryIdle
       /\ scrape = ScrapeIdle /\ trace = TraceIdle /\ got = GotIdle
       /\ chunk_call = ChunkIdle /\ clean_call = CleanIdle /\ crawl = CrawlIdle
       /\ limiter = LimiterIdle /\ hybrid = HybridIdle /\ scheduled = ScheduledIdle
    /\ \E n \in 0..MaxTexts, b \in 1..MaxBatch, r \in 1..MaxRetryAttempts :
          provider = [pos |-> "loop", n |-> n, batch_size |-> b, max_retries |-> r,
                      i |-> 0, attempt |-> 1, in_flight |-> 0, log |-> <<>>]

\* for i in range(0, len(texts), batch_size): the next request of the batch
ProviderRequest ==
    /\ provider.pos = "loop"
    /\ provider.i < provider.n
    /\ provider' = CreateEmbeddings(provider)
    /\ UNCHANGED <<service, retry, sink, embed_call, store_call, lock_run, workers, startup, listing, db_query, scrape, trace, got, chunk_call, clean_call, crawl, limiter, hybrid, scheduled>>

ProviderAnswer ==
    /\ provider.pos = "awaiting"
    /\ \E ok \in BOOLEAN : provider' = BatchAnswered(provider, ok)
    /\ UNCHANGED <<service, retry, sink, embed_call, store_call, lock_run, workers, startup, listing, db_query, scrape, trace, got, chunk_call, clean_call, crawl, limiter, hybrid, scheduled>>

\* await asyncio.sleep(2 ** attempt), then the next attempt
ProviderBackoff ==
    /\ provider.pos = "sleeping"
    /\ provider' = [provider EXCEPT !.attempt = @ + 1, !.pos = "loop"]
    /\ UNCHANGED <<service, retry, sink, embed_call, store_call, lock_run, workers, startup, listing, db_query, scrape, trace, got, chunk_call, clean_call, crawl, limiter, hybrid, scheduled>>

\* return all_embeddings ([] at once for no texts)
ProviderReturn ==
    /\ provider.pos = "loop"
    /\ provider.i >= provider.n
    /\ provider' = [provider EXCEPT !.pos = "returned"]
    /\ UNCHANGED <<service, retry, sink, embed_call, store_call, lock_run, workers, startup, listing, db_query, scrape, trace, got, chunk_call, clean_call, crawl, limiter, hybrid, scheduled>>

NextProvider == ProviderRequest \/ ProviderAnswer \/ ProviderBackoff \/ ProviderReturn

SpecProvider == InitProvider /\ [][NextProvider]_vars

\* ============================================================== clean stage
\* CleanStage.execute (pipeline/clean.py) over a list of raw documents.  A
\* text is the sequence of its pieces: a word of letters, a URL, or one
\* space.
\*   clean_call.i    index of the document the loop is at
\*   clean_call.out  cleaned_documents

\* bounds on the number of raw documents and on the pieces of one document
MaxRawDocs == 2
MaxPieces == 2

\* the min_content_length default
DefaultMinContentLength == 10

\* len() of a piece
PieceLen == [word |-> 4, url |-> 21, space |-> 1]

RECURSIVE TextLen(_)
TextLen(text) == IF text = <<>> THEN 0 ELSE PieceLen[Head(text)] + TextLen(Tail(text))

\* re.sub of the URL pattern with '': the match starts at http:// and runs
\* over every following letter, digit or URL character, up to the next space.
RECURSIVE RemoveUrls(_, _)
RemoveUrls(text, in_url) ==
    IF text = <<>> THEN <<>>
    ELSE IF Head(text) = "url" THEN RemoveUrls(Tail(text), TRUE)
    ELSE IF Head(text) = "word" /\ in_url THEN RemoveUrls(Tail(text), TRUE)
    ELSE <<Head(text)>> \o RemoveUrls(Tail(text), FALSE)

\* re.sub(r' +', ' ', text)
RECURSIVE CollapseSpaces(_)
CollapseSpaces(text) ==
    IF Len(text) < 2 THEN text
    ELSE IF text[1] = "space" /\ text[2] = "space" THEN CollapseSpaces(Tail(text))
    ELSE <<Head(text)>> \o CollapseSpaces(Tail(text))

\* text.strip()
RECURSIVE StripLeft(_)
StripLeft(text) ==
    IF text # <<>> /\ Head(text) = "space" THEN StripLeft(Tail(text)) ELSE text

RECURSIVE StripRight(_)
StripRight(text) ==
    IF text # <<>> /\ text[Len(text)] = "space"
    THEN StripRight(SubSeq(text, 1, Len(text) - 1)) ELSE text

StripText(text) == StripRight(StripLeft(text))

\* _clean_text: the URLs removed when asked, the whitespace normalized when
\* asked, then strip().  Unicode normalization and the handling of line ends
\* leave the pieces of these texts as they are, and remove_emails is off.
CleanText(text, cfg) ==
    LET no_urls == IF cfg.remove_urls THEN RemoveUrls(text, FALSE) ELSE text
        spaced == IF cfg.normalize_whitespace THEN CollapseSpaces(no_urls) ELSE no_urls
    IN  StripText(spaced)

\* RawDocument: content of at least one character, not only whitespace
RawDocumentAccepts(content) == StripText(content) # <<>>

\* CleanedDocument: content = Field(..., min_length=1), char_count >= 0
CleanedDocumentAccepts(d) == TextLen(d.content) >= 1 /\ d.char_count >= 0

RawContents ==
    {c \in UNION {[1..n -> DOMAIN PieceLen] : n \in 1..MaxPieces} : RawDocumentAccepts(c)}

RawDocumentLists ==
    UNION {[1..n -> RawContents] : n \in 0..MaxRawDocs}

\* CleanStage(remove_urls, normalize_whitespace); CleanStage() as the
\* orchestrator builds it has remove_urls off and normalize_whitespace on.
CleanConfigs ==
    [remove_urls : BOOLEAN, normalize_whitespace : BOOLEAN,
     min_content_length : {DefaultMinContentLength}]

InitClean ==
    /\ ServiceInit /\ retry = RetryIdle /\ sink = SinkIdle /\ embed_call = EmbedIdle
       /\ store_call = StoreIdle /\ lock_run = LockIdle /\ workers = WorkersIdle
       /\ startup = StartupIdle /\ listing = ListingIdle /\ db_query = QueryIdle
       /\ scrape = ScrapeIdle /\ trace = TraceIdle /\ got = GotIdle
       /\ chunk_call = ChunkIdle /\ provider = ProviderIdle /\ crawl = CrawlIdle
       /\ limiter = LimiterIdle /\ hybrid = HybridIdle /\ scheduled = ScheduledIdle
    /\ \E cfg \in CleanConfigs, ds \in RawDocumentLists :
          clean_call = [pos |-> "loop", config |-> cfg,
                        documents |-> [k \in 1..Len(ds) |-> [id |-> k, content |-> ds[k]]],
                        i |-> 1, out |-> <<>>, short |-> {}]

\* One pass of the loop of execute: the content is cleaned, a content shorter
\* than min_content_length is logged (and noted in `short`), and the
\* CleanedDocument is built and appended; a validation error of
\* CleanedDocument is caught by the except clause, which raises
\* CleanStageError.
CleanDocument ==
    /\ clean_call.pos = "loop"
    /\ clean_call.i <= Len(clean_call.documents)
    /\ LET doc == clean_call.documents[clean_call.i]
           cleaned_content == CleanText(doc.content, clean_call.config)
           cleaned_doc == [id |-> doc.id, content |-> cleaned_content,
                           char_count |-> TextLen(cleaned_content)]
           short == IF TextLen(cleaned_content) < clean_call.config.min_content_length
                    THEN clean_call.short \cup {doc.id} ELSE clean_call.short
       IN  IF CleanedDocumentAccepts(cleaned_doc)
           THEN clean_call' = [clean_call EXCEPT !.out = Append(@, cleaned_doc),
                                                 !.i = @ + 1, !.short = short]
           ELSE clean_call' = [clean_call EXCEPT !.pos = "raised", !.short = short]
    /\ UNCHANGED <<service, retry, sink, embed_call, store_call, lock_run, workers, startup, listing, db_query, scrape, trace, got, chunk_call, provider, crawl, limiter, hybrid, scheduled>>

\* return cleaned_documents
CleanReturn ==
    /\ clean_call.pos = "loop"
    /\ clean_call.i > Len(clean_call.documents)
    /\ clean_call' = [clean_call EXCEPT !.pos = "returned"]
    /\ UNCHANGED <<service, retry, sink, embed_call, store_call, lock_run, workers, startup, listing, db_query, scrape, trace, got, chunk_call, provider, crawl, limiter, hybrid, scheduled>>

NextClean == CleanDocument \/ CleanReturn

SpecClean == InitClean /\ [][NextClean]_vars

\* ======================================================= scrape with retries
\* BaseSourceAdapter.fetch_with_retry (sources/base.py) around
\* URLScrapeAdapter.fetch(sitemap_url=...) (sources/url_scrape.py): every
\* attempt is one call of fetch on the same adapter.
\*   crawl.urls       the URLs _parse_sitemap returns, as the sitemap lists them
\*   crawl.visited    _visited_urls
\*   crawl.requested  the page URLs given to _fetch_url_content, in order

\* Clear visited URLs for new fetch: self._visited_urls.clear()
ClearVisited(c) == [c EXCEPT !.visited = {}, !.documents = <<>>, !.next = 1]

\* fetch_with_retry, except clause: sleep and go round while attempt <
\* max_attempts, else leave the loop and raise FetchError.
AttemptFailed(c) ==
    IF c.attempt < c.max_attempts THEN [c EXCEPT !.pos = "sleeping"]
    ELSE [c EXCEPT !.pos = "raised"]

InitCrawl ==
    /\ ServiceInit /\ retry = RetryIdle /\ sink = SinkIdle /\ embed_call = EmbedIdle
       /\ store_call = StoreIdle /\ lock_run = LockIdle /\ workers = WorkersIdle
       /\ startup = StartupIdle /\ listing = ListingIdle /\ db_query = QueryIdle
       /\ scrape = ScrapeIdle /\ trace = TraceIdle /\ got = GotIdle
       /\ chunk_call = ChunkIdle /\ provider = ProviderIdle /\ clean_call = CleanIdle
       /\ limiter = LimiterIdle /\ hybrid = HybridIdle /\ scheduled = ScheduledIdle
    /\ \E n \in 0..MaxUrls, r \in 1..MaxRetryAttempts :
          \E urls \in [1..n -> UrlPaths] :
             crawl = [CrawlIdle EXCEPT !.pos = "fetch", !.urls = urls,
                                       !.max_attempts = r, !.attempt = 1]

\* fetch begins: the visited set is cleared and the sitemap is parsed, which
\* gives the URLs or raises FetchError.
CrawlParseSitemap(ok) ==
    /\ crawl.pos = "fetch"
    /\ crawl' = IF ok THEN [ClearVisited(crawl) EXCEPT !.pos = "pages"]
                ELSE AttemptFailed(ClearVisited(crawl))
    /\ UNCHANGED <<service, retry, sink, embed_call, store_call, lock_run, workers, startup, listing, db_query, scrape, trace, got, chunk_call, provider, clean_call, limiter, hybrid, scheduled>>

\* One turn of `for page_url in urls`: a URL robots.txt disallows and a URL
\* already visited are passed over; else the URL is added to the visited
\* set and requested.  FetchError of the page is logged and the loop goes
\* on; any other exception becomes the FetchError of fetch.
CrawlPage(allowed, outcome) ==
    /\ crawl.pos = "pages" /\ crawl.next <= Len(crawl.urls)
    /\ LET url == crawl.urls[crawl.next]
           on == [crawl EXCEPT !.next = @ + 1]
           asked == [on EXCEPT !.visited = @ \cup {url}, !.requested = Append(@, url)]
       IN  crawl' =
             IF ~allowed \/ url \in crawl.visited THEN on
             ELSE IF outcome = "ok" THEN [asked EXCEPT !.documents = Append(@, url)]
             ELSE IF outcome = "FetchError" THEN asked
             ELSE AttemptFailed(asked)
    /\ UNCHANGED <<service, retry, sink, embed_call, store_call, lock_run, workers, startup, listing, db_query, scrape, trace, got, chunk_call, provider, clean_call, limiter, hybrid, scheduled>>

\* After the loop: FetchError when no document was fetched, else the
\* documents are returned and fetch_with_retry returns them.
CrawlFetchEnd ==
    /\ crawl.pos = "pages" /\ crawl.next > Len(crawl.urls)
    /\ crawl' = IF crawl.documents = <<>> THEN AttemptFailed(crawl)
                ELSE [crawl EXCEPT !.pos = "returned"]
    /\ UNCHANGED <<service, retry, sink, embed_call, store_call, lock_run, workers, startup, listing, db_query, scrape, trace, got, chunk_call, provider, clean_call, limiter, hybrid, scheduled>>

\* await asyncio.sleep(backoff_base ** attempt), then the next attempt
CrawlBackoff ==
    /\ crawl.pos = "sleeping"
    /\ crawl' = [crawl EXCEPT !.attempt = @ + 1, !.pos = "fetch"]
    /\ UNCHANGED <<service, retry, sink, embed_call, store_call, lock_run, workers, startup, listing, db_query, scrape, trace, got, chunk_call, provider, clean_call, limiter, hybrid, scheduled>>

CrawlSitemapStep == \E ok \in BOOLEAN : CrawlParseSitemap(ok)
CrawlPageStep ==
    \E allowed \in BOOLEAN, outcome \in {"ok", "FetchError", "Exception"} :
        CrawlPage(allowed, outcome)

NextCrawl == CrawlSitemapStep \/ CrawlPageStep \/ CrawlFetchEnd \/ CrawlBackoff

SpecCrawl == InitCrawl /\ [][NextCrawl]_vars

\* ============================================================ rate limiting
\* The HTTP requests of one URLScrapeAdapter (sources/url_scrape.py) on a
\* clock of whole seconds.  _check_robots_txt, _parse_sitemap and
\* _fetch_url_content each call _rate_limit(url) and then client.get(url),
\* one after the other: an adapter is built for one fetch and used by it
\* alone.  The client is built with follow_redirects=True, so a response
\* that redirects makes client.get send a further request at once.
\*   limiter.now       asyncio.get_event_loop().time()
\*   limiter.last      _last_request_per_domain (None for a missing key)
\*   limiter.requests  the HTTP requests sent, in order
\*   limiter.hops      redirects followed by the client.get under way

\* bound on the number of HTTP requests
MaxRequests == 3

\* httpx.AsyncClient(max_redirects=5)
MaxRedirects == 5

Hosts == {"a.example", "b.example"}
RequestKinds == {"robots", "sitemap", "page"}
RateLimitDelays == {1, 2}

\* what a coroutine may be late by, and what an answer may take
Lateness == {0, 1}

\* _rate_limit: the time to sleep, 0 when the domain has no entry or the
\* delay has passed.
SleepTime(l, host) ==
    IF l.last[host] # None /\ l.now - l.last[host][1] < l.rate_limit_delay
    THEN l.rate_limit_delay - (l.now - l.last[host][1])
    ELSE 0

\* _rate_limit(url) with the sleep ending `late` after its time: the
\* domain's entry is set to the time read after the sleep.
RateLimit(l, host, late) ==
    LET woken == IF SleepTime(l, host) > 0 THEN l.now + SleepTime(l, host) + late
                 ELSE l.now
    IN  [l EXCEPT !.now = woken, !.last[host] = Some(woken)]

\* a request leaves the client at the present time
SendRequest(l, host, kind) ==
    [l EXCEPT !.requests = Append(@, [host |-> host, kind |-> kind, time |-> l.now])]

InitLimiter ==
    /\ ServiceInit /\ retry = RetryIdle /\ sink = SinkIdle /\ embed_call = EmbedIdle
       /\ store_call = StoreIdle /\ lock_run = LockIdle /\ workers = WorkersIdle
       /\ startup = StartupIdle /\ listing = ListingIdle /\ db_query = QueryIdle
       /\ scrape = ScrapeIdle /\ trace = TraceIdle /\ got = GotIdle
       /\ chunk_call = ChunkIdle /\ provider = ProviderIdle /\ clean_call = CleanIdle
       /\ crawl = CrawlIdle /\ hybrid = HybridIdle /\ scheduled = ScheduledIdle
    /\ \E d \in RateLimitDelays :
          limiter = [LimiterIdle EXCEPT !.pos = "ready", !.rate_limit_delay = d]

\* await self._rate_limit(url); response = await self.client.get(url)
LimitedGet(host, kind, late) ==
    /\ limiter.pos = "ready"
    /\ Len(limiter.requests) < MaxRequests
    /\ limiter' = [SendRequest(RateLimit(limiter, host, late), host, kind)
                      EXCEPT !.pos = "awaiting", !.kind = kind, !.hops = 0]
    /\ UNCHANGED <<service, retry, sink, embed_call, store_call, lock_run, workers, startup, listing, db_query, scrape, trace, got, chunk_call, provider, clean_call, crawl, hybrid, scheduled>>

\* The response is a redirect to a URL of host `to`: the client follows it.
FollowRedirect(to, took) ==
    /\ limiter.pos = "awaiting"
    /\ limiter.hops < MaxRedirects
    /\ Len(limiter.requests) < MaxRequests
    /\ limiter' = [SendRequest([limiter EXCEPT !.now = @ + took], to, limiter.kind)
                      EXCEPT !.hops = @ + 1]
    /\ UNCHANGED <<service, retry, sink, embed_call, store_call, lock_run, workers, startup, listing, db_query, scrape, trace, got, chunk_call, provider, clean_call, crawl, hybrid, scheduled>>

\* client.get returns or raises, and the adapter goes on to its next request.
GetEnds(took) ==
    /\ limiter.pos = "awaiting"
    /\ limiter' = [limiter EXCEPT !.now = @ + took, !.pos = "ready"]
    /\ UNCHANGED <<service, retry, sink, embed_call, store_call, lock_run, workers, startup, listing, db_query, scrape, trace, got, chunk_call, provider, clean_call, crawl, hybrid, scheduled>>

LimitedGetStep ==
    \E host \in Hosts, kind \in RequestKinds, late \in Lateness : LimitedGet(host, kind, late)
FollowRedirectStep == \E to \in Hosts, took \in Lateness : FollowRedirect(to, took)
GetEndsStep == \E took \in Lateness : GetEnds(took)

NextLimiter == LimitedGetStep \/ FollowRedirectStep \/ GetEndsStep

SpecLimiter == InitLimiter /\ [][NextLimiter]_vars

\* =========================================================== hybrid chunking
\* SemanticChunker._chunk_hybrid (pipeline/semantic_chunker.py) over the
\* sentences of one document.  A sentence is its token count; the chunk
\* being built is the sequence of the indices of its sentences.
\*   hybrid.boundaries  is_boundary of _detect_semantic_boundaries, one per
\*                      pair of neighbouring sentences
\*   hybrid.i           index of the sentence the loop is at
\*   hybrid.flushes     for every chunk saved inside the loop: its sentences,
\*                      the split reason and the chunk started after it

\* bound on the number of sentences of the document
MaxHybridSentences == 5

SentenceTokens == {1, 2}
HybridChunkSizes == {2, 4}
HybridOverlaps == {0, 1}

\* sum(self.count_tokens(s) for s in current_chunk)
RECURSIVE ChunkTokens(_, _)
ChunkTokens(chunk, sentences) ==
    IF chunk = <<>> THEN 0
    ELSE sentences[Head(chunk)] + ChunkTokens(Tail(chunk), sentences)

\* current_tokens >= self.chunk_size * 0.7
SoftLimitReached(tokens, chunk_size) == 10 * tokens >= 7 * chunk_size

\* The split decision for the sentence at index i (counted from 1; the
\* boundary after it is boundaries[i]): "token_limit", "semantic_boundary"
\* or "none".
SplitReason(h, tokens) ==
    IF tokens > h.chunk_size THEN "token_limit"
    ELSE IF h.i <= Len(h.boundaries) /\ h.boundaries[h.i]
            /\ SoftLimitReached(tokens, h.chunk_size) THEN "semantic_boundary"
    ELSE "none"

\* overlap_sentences = current_chunk[-(len(current_chunk) // 4):]
OverlapSentences(chunk) == LastK(chunk, Len(chunk) \div 4)

InitHybrid ==
    /\ ServiceInit /\ retry = RetryIdle /\ sink = SinkIdle /\ embed_call = EmbedIdle
       /\ store_call = StoreIdle /\ lock_run = LockIdle /\ workers = WorkersIdle
       /\ startup = StartupIdle /\ listing = ListingIdle /\ db_query = QueryIdle
       /\ scrape = ScrapeIdle /\ trace = TraceIdle /\ got = GotIdle
       /\ chunk_call = ChunkIdle /\ provider = ProviderIdle /\ clean_call = CleanIdle
       /\ crawl = CrawlIdle /\ limiter = LimiterIdle /\ scheduled = ScheduledIdle
    /\ \E n \in 1..MaxHybridSentences, size \in HybridChunkSizes, o \in HybridOverlaps :
          \E ss \in [1..n -> SentenceTokens], bs \in [1..(n - 1) -> BOOLEAN] :
             hybrid = [HybridIdle EXCEPT !.pos = "loop", !.sentences = ss,
                                         !.boundaries = bs, !.chunk_size = size,
                                         !.overlap = o, !.i = 1]

\* One turn of `for i, sentence in enumerate(sentences)`.
HybridSentence ==
    /\ hybrid.pos = "loop" /\ hybrid.i <= Len(hybrid.sentences)
    /\ LET current_chunk == Append(hybrid.current_chunk, hybrid.i)
           current_tokens == hybrid.current_tokens + hybrid.sentences[hybrid.i]
           split_reason == SplitReason(hybrid, current_tokens)
           started == IF split_reason = "token_limit" /\ hybrid.overlap > 0
                      THEN OverlapSentences(current_chunk) ELSE <<>>
       IN  IF split_reason = "none"
           THEN hybrid' = [hybrid EXCEPT !.current_chunk = current_chunk,
                                         !.current_tokens = current_tokens,
                                         !.i = @ + 1]
           ELSE hybrid' = [hybrid EXCEPT
                    !.chunks = Append(@, [sentences |-> current_chunk,
                                          token_count |-> current_tokens,
                                          split_reason |-> split_reason]),
                    !.flushes = Append(@, [flushed |-> current_chunk,
                                           split_reason |-> split_reason,
                                           started |-> started]),
                    !.current_chunk = started,
                    !.current_tokens = ChunkTokens(started, hybrid.sentences),
                    !.i = @ + 1]
    /\ UNCHANGED <<service, retry, sink, embed_call, store_call, lock_run, workers, startup, listing, db_query, scrape, trace, got, chunk_call, provider, clean_call, crawl, limiter, scheduled>>

\* Save final chunk (its token count, that of the joined text, taken as the
\* sum of its sentences'), return chunks
HybridReturn ==
    /\ hybrid.pos = "loop" /\ hybrid.i > Len(hybrid.sentences)
    /\ hybrid' = [hybrid EXCEPT
           !.pos = "returned",
           !.chunks = IF hybrid.current_chunk = <<>> THEN @
                      ELSE Append(@, [sentences |-> hybrid.current_chunk,
                                      token_count |-> hybrid.current_tokens,
                                      split_reason |-> "none"])]
    /\ UNCHANGED <<service, retry, sink, embed_call, store_call, lock_run, workers, startup, listing, db_query, scrape, trace, got, chunk_call, provider, clean_call, crawl, limiter, scheduled>>

NextHybrid == HybridSentence \/ HybridReturn

SpecHybrid == InitHybrid /\ [][NextHybrid]_vars

\* ================================================================ scheduler
\* RakeScheduler (scheduler.py) beside submit_job: the scheduler started with
\* one job added, its orchestrator constructed.  APScheduler calls
\* _execute_scheduled_job at every firing of the trigger, one instance at a
\* time (max_instances=1).
\*   scheduled.fired    firings of the trigger so far
\*   scheduled.job_ids  the pipeline_job_id of every execution
\*   scheduled.results  how the executions ended

\* bound on the number of firings of the trigger
MaxFirings == 2

\* pipeline_job_id = f"scheduled-{job_id}-{timestamp}": an id that no HTTP
\* submission has, the k-th firing's being the k-th after the HTTP ids.
ScheduledPipelineJobId(k) == MaxJobs + k

\* _execute_scheduled_job up to its await: the ids are made and
\* orchestrator.run is entered.  Nothing is written to the job store and no
\* background task of _run_pipeline_job is queued.
ExecuteScheduledJob ==
    /\ scheduled.pos = "idle"
    /\ scheduled.fired < MaxFirings
    /\ scheduled' = [scheduled EXCEPT
           !.pos = "running", !.fired = @ + 1,
           !.job_ids = Append(@, ScheduledPipelineJobId(scheduled.fired + 1))]
    /\ UNCHANGED <<service, retry, sink, embed_call, store_call, lock_run, workers, startup, listing, db_query, scrape, trace, got, chunk_call, provider, clean_call, crawl, limiter, hybrid>>

\* orchestrator.run returns its result, which is logged, or raises, which is
\* logged and raised again to APScheduler.
ScheduledRunEnds(ok) ==
    /\ scheduled.pos = "running"
    /\ scheduled' = [scheduled EXCEPT
           !.pos = "idle",
           !.results = Append(@, IF ok THEN "completed" ELSE "failed")]
    /\ UNCHANGED <<service, retry, sink, embed_call, store_call, lock_run, workers, startup, listing, db_query, scrape, trace, got, chunk_call, provider, clean_call, crawl, limiter, hybrid>>

InitScheduled ==
    /\ ServiceInit /\ retry = RetryIdle /\ sink = SinkIdle /\ embed_call = EmbedIdle
       /\ store_call = StoreIdle /\ lock_run = LockIdle /\ workers = WorkersIdle
       /\ startup = StartupIdle /\ listing = ListingIdle /\ db_query = QueryIdle
       /\ scrape = ScrapeIdle /\ trace = TraceIdle /\ got = GotIdle
       /\ chunk_call = ChunkIdle /\ provider = ProviderIdle /\ clean_call = CleanIdle
       /\ crawl = CrawlIdle /\ limiter = LimiterIdle /\ hybrid = HybridIdle
    /\ scheduled = [ScheduledIdle EXCEPT !.pos = "idle"]

ScheduledRunStep == \E ok \in BOOLEAN : ScheduledRunEnds(ok)

\* The handlers and the runner of submissions over HTTP go on beside it.
NextScheduled ==
    \/ Submit \/ Start \/ Fetch \/ Clean \/ Chunk \/ Embed \/ Store
    \/ ExecuteScheduledJob \/ ScheduledRunStep

SpecScheduled == InitScheduled /\ [][NextScheduled]_vars

\* ================================================================ claims
IsPrefix(s, t) == Len(s) <= Len(t) /\ \A i \in 1..Len(s) : s[i] = t[i]

RunningStages == {StageNames[k] : k \in 1..5}

StageIndex(name) == CHOOSE k \in 1..5 : StageNames[k] = name

\* A response to a cancel request for job j is sent in this step.
CancelAnswered(j) == http' # http /\ http'.op = "cancel" /\ http'.job = j

C2_CompletedAtIffTerminal ==
    \A j \in JobIds :
        InStore(j) =>
            ((job_store[j].completed_at # None) <=> (job_store[j].status \in TerminalStatuses))

\* C3: at every moment every job's stages_completed, in the job record and in
\* the orchestrator's job object, is a prefix of [fetch, clean, chunk, embed,
\* store].
C3_StagesCompletedIsPrefix ==
    \A j \in JobIds :
        /\ InStore(j) => IsPrefix(job_store[j].stages_completed, StageNames)
        /\ IsPrefix(job[j].stages_completed, StageNames)

\* C3 witness: one job completed with all five stages recorded while another
\* was cancelled and then failed in a later stage than fetch.
C3_Witness ==
    \E i, j \in JobIds :
        /\ InStore(i) /\ job_store[i].status = "completed"
        /\ job_store[i].stages_completed = StageNames
        /\ InStore(j) /\ job_store[j].status = "failed"
        /\ Len(job[j].stages_completed) >= 2

C5_CancelOnlyFromNonTerminal ==
    [][\A j \in JobIds :
         /\ (InStore(j) /\ job_store'[j].status = "cancelled"
                /\ job_store[j].status # "cancelled")
               => job_store[j].status \notin TerminalStatuses
         /\ (InStore(j) /\ job_store[j].status \in TerminalStatuses /\ CancelAnswered(j))
               => (http'.code = 409 /\ job_store' = job_store)]_vars

\* C5 amended: a cancel request changes a status to cancelled only if the
\* status was non-terminal at that moment; on a completed or failed job it is
\* rejected with 409 and the record is unchanged; on an already cancelled job
\* it is accepted with 204 and the record is unchanged; on any other job it
\* is accepted with 204 and only the status changes.
C5_CancelOnlyFromNotFinished ==
    [][\A j \in JobIds :
         /\ (InStore(j) /\ job_store'[j].status = "cancelled"
                /\ job_store[j].status # "cancelled")
               => job_store[j].status \notin TerminalStatuses
         /\ (InStore(j) /\ job_store[j].status \in {"completed", "failed"} /\ CancelAnswered(j))
               => (http'.code = 409 /\ job_store' = job_store)
         /\ (InStore(j) /\ job_store[j].status = "cancelled" /\ CancelAnswered(j))
               => (http'.code = 204 /\ job_store' = job_store)
         /\ (InStore(j) /\ job_store[j].status \notin TerminalStatuses /\ CancelAnswered(j))
               => (http'.code = 204
                   /\ job_store' = [job_store EXCEPT ![j].status = "cancelled"])]_vars

\* C5 witness: a cancel request on a failed job has just been refused.
C5_Witness ==
    /\ http.op = "cancel" /\ http.code = 409
    /\ http.job \in JobIds /\ job_store[http.job].status = "failed"

\* C6: every job accepted by submission eventually reaches a terminal status.
C6_AcceptedJobEventuallyTerminal ==
    \A j \in JobIds : InStore(j) ~> (job_store[j].status \in TerminalStatuses)

\* C7: within one job the stages are invoked in the order fetch, clean, chunk,
\* embed, store, none skipped, and stage N+1 is invoked only after stage N
\* returned successfully.
C7_StagesRunInOrder ==
    \A j \in JobIds :
        /\ IsPrefix(invoked[j], StageNames)
        /\ IsPrefix(job[j].stages_completed, invoked[j])
        /\ Len(invoked[j]) <= Len(job[j].stages_completed) + 1

\* C7 witness: the store stage is running after the four stages before it.
C7_Witness ==
    \E j \in JobIds : pc[j] = "store" /\ invoked[j] = StageNames

C9_CompletedJobHasAllStagesAndCounts ==
    \A j \in JobIds :
        (InStore(j) /\ job_store[j].status = "completed")
            => /\ job_store[j].stages_completed = StageNames
               /\ job_store[j].embeddings_generated = job_store[j].chunks_created
               /\ job_store[j].chunks_created # None

\* C9 witness: a job completed whose chunks needed more than one batch.
C9_Witness ==
    \E j \in JobIds :
        /\ InStore(j) /\ job_store[j].status = "completed"
        /\ job_store[j].chunks_created = Some(MaxChunks)
        /\ MaxChunks > BatchSize

\* The fetch of job j failed on every attempt of fetch_with_retry.
FetchFailedAllAttempts(j) ==
    /\ pc[j] = "done"
    /\ attempt[j] = FetchMaxAttempts
    /\ job[j].status = "failed" /\ job[j].current_stage = 1

\* C10: if the fetch adapter fails on all three attempts, the job ends with
\* status failed, a non-empty error_message, stages_completed equal to the
\* empty list, and a job_failed event with failed_stage "fetch".
C10_FetchExhaustedFailsJob ==
    \A j \in JobIds :
        FetchFailedAllAttempts(j)
            => /\ InStore(j) /\ job_store[j].status = "failed"
               /\ job_store[j].error_message \notin {None, Some("")}
               /\ job_store[j].stages_completed = <<>>
               /\ \E i \in 1..Len(emitted[j]) :
                      emitted[j][i] = Event("job_failed", "fetch")

\* C10 witness: a job whose three fetch attempts all failed.
C10_Witness == \E j \in JobIds : FetchFailedAllAttempts(j)

\* The job_failed events among the telemetry emitted for job j.
JobFailedEvents(j) ==
    SelectSeq(emitted[j], LAMBDA ev : ev.event_type = "job_failed")

\* The orchestrator's run of job j ended in its stage-error clause.
FailedWithStageError(j) == job[j].status = "failed" /\ job[j].current_stage \in 1..5

C13_StageInvokedAtMostOnce ==
    [][\A j \in JobIds :
         /\ \A a, b \in 1..Len(invoked'[j]) : invoked'[j][a] = invoked'[j][b] => a = b
         /\ job[j].status = "failed" => invoked'[j] = invoked[j]]_vars

\* C13 witness: a job failed in the chunk stage while another step is still
\* possible for the service.
C13_Witness ==
    \E j \in JobIds :
        /\ job[j].status = "failed" /\ invoked[j] = <<"fetch", "clean", "chunk">>
        /\ pc[j] = "done"

\* A retry loop has ended, by returning or by raising.
RetryEnded == retry.pos \in {"returned", "raised"}

\* C14: a retry loop calls the operation at most max_attempts times, makes
\* no call after the first success, and sleeps only after a failed attempt
\* whose number is below max_attempts, once per such attempt.
C14_RetryLoopBounded ==
    /\ retry.calls <= retry.max_attempts
    /\ retry.calls = Len(retry.errors) + (IF retry.pos = "returned" THEN 1 ELSE 0)
    /\ retry.pos = "raised" => Len(retry.errors) = retry.max_attempts
    /\ Len(retry.slept) <= Len(retry.errors)
    /\ \A i \in 1..Len(retry.slept) :
          retry.slept[i].after = i /\ i < retry.max_attempts

\* C14 witness: a loop of three attempts raised after two sleeps.
C14_Witness ==
    /\ retry.pos = "raised" /\ retry.max_attempts = 3
    /\ retry.calls = 3 /\ Len(retry.slept) = 2

\* C15: in the fetch loop and in the embedding loop the sleep after failed
\* attempt k lasts min(base_delay * multiplier^(k-1), max_delay) seconds with
\* the defaults 1, 2 and 60: 1 s after attempt 1, 2 s after attempt 2.
C15_SleepIsCappedExponential ==
    retry.path \in {"fetch_with_retry", "generate_batch_with_retry"}
        => \A i \in 1..Len(retry.slept) :
              retry.slept[i].seconds
                = Min(RETRY_DELAY * Pow(RETRY_BACKOFF, retry.slept[i].after - 1),
                      DefaultMaxDelay)

\* C16: when every attempt failed, the error the loop raises to its caller
\* is the error object the last attempt raised.
C16_RaisesLastError ==
    retry.pos = "raised" => retry.raised = Some(retry.errors[Len(retry.errors)])

\* C17: one retry_attempt event is emitted for each retry sleep, carrying the
\* number of the attempt that failed and max_attempts.
C17_RetryAttemptEventPerSleep ==
    /\ Len(retry.events) = Len(retry.slept)
    /\ \A i \in 1..Len(retry.events) :
          retry.events[i] = [event_type |-> "retry_attempt",
                             attempt_number |-> retry.slept[i].after,
                             max_attempts |-> retry.max_attempts]

\* C18: a fetch whose first attempt fails with a validation error or with a
\* permanent fetch error is attempted once: no sleep, no second call.
C18_PermanentFailureNotRetried ==
    (/\ retry.path = "fetch_with_retry"
     /\ retry.errors # <<>>
     /\ retry.errors[1].cause \in {"validation", "permanent"})
        => retry.calls = 1 /\ retry.slept = <<>>

\* C19: a telemetry emit call never raises to its caller: whatever the sink
\* meets (store locked, connection error, HTTP error status, timeout, any
\* other exception) the call returns True or False and the caller goes on.
C19_EmitNeverRaises ==
    /\ sink.pos # "raised"
    /\ \A k \in 1..Len(sink.results) : sink.results[k].result \in {"True", "False"}

\* C19 witness: an enabled HTTP sink failed to connect and the caller made
\* a further emit call afterwards.
C19_Witness ==
    /\ sink.kind = "http" /\ sink.enabled /\ Len(sink.results) >= 2
    /\ sink.results[1] = [cond |-> "httpx.ConnectError", result |-> "False"]

\* C20: the list the embed stage returns has one embedding per input chunk,
\* and the embedding at position i carries the id of the chunk at position i
\* and the vector computed for that chunk's text, whatever the number of
\* chunks and the batch size.
C20_OneEmbeddingPerChunkInOrder ==
    embed_call.pos = "returned"
        => /\ Len(embed_call.out) = Len(embed_call.chunks)
           /\ \A k \in 1..Len(embed_call.chunks) :
                 /\ embed_call.out[k].chunk_id = embed_call.chunks[k].id
                 /\ embed_call.out[k].vector.text = embed_call.chunks[k].content

\* C20 witness: three chunks, not in id order, embedded in two batches.
C20_Witness ==
    /\ embed_call.pos = "returned" /\ embed_call.batch_size = 2
    /\ Len(embed_call.out) = 3 /\ embed_call.chunks[1].id = 3

\* C21: every embedding the embed stage returns has a vector whose length is
\* the declared dimension of the stage's model, and a call in which some
\* vector has another length ends with the stage raising.
C21_VectorLengthIsModelDimension ==
    /\ embed_call.pos = "returned"
         => \A k \in 1..Len(embed_call.out) :
               embed_call.out[k].vector.len = ModelDimensions[embed_call.model]
    /\ (/\ embed_call.pos \in {"returned", "raised"}
        /\ embed_call.i >= Len(embed_call.chunks)
        /\ \E k \in 1..Len(embed_call.all_embeddings) :
              embed_call.all_embeddings[k].len # ModelDimensions[embed_call.model])
         => embed_call.pos = "raised"

\* The call of the store stage has ended, by returning or by raising.
StoreEnded == store_call.pos \in {"returned", "raised"}

\* C22: one execution of the store stage makes exactly one embeddings-submit
\* call, and that call carries the whole input list.
C22_ExactlyOneSubmitOfWholeList ==
    StoreEnded => store_call.posts = <<store_call.embeddings>>

\* C22 amended: an execution makes at most one embeddings-submit call, every
\* such call carries the whole input list, and an ended execution has made
\* the call exactly when its input list was not empty.
C22_AtMostOneSubmitOfWholeList ==
    /\ Len(store_call.posts) <= 1
    /\ \A k \in 1..Len(store_call.posts) : store_call.posts[k] = store_call.embeddings
    /\ StoreEnded => (Len(store_call.posts) = 1 <=> store_call.embeddings # <<>>)

\* C22 witness: the stage raised while storing document metadata, after the
\* one submit of a list of several embeddings.
C22_Witness ==
    /\ store_call.pos = "raised" /\ Len(store_call.embeddings) >= 2
    /\ Len(store_call.posts) = 1 /\ store_call.stored # <<>>

\* C23: every read and every write of the job map and of the fields of the
\* jobs in it, a handler's read of a job's fields to decide what to do next
\* included, is made while _job_store_lock is held.
C23_AccessOnlyUnderLock ==
    lock_run.last.op # "none" => lock_run.last.held

C25_NoOrphanAfterStartup ==
    (startup.phase = "serving" /\ startup.database = "ready")
        => GetActiveJobs(startup.jobs) \subseteq startup.running

\* The rows of a listing that pass the filters given.
MatchingRows ==
    {k \in 1..Len(listing.rows) :
        /\ listing.tenant_id # None => listing.rows[k].tenant_id = listing.tenant_id[1]
        /\ listing.status # None => listing.rows[k].status = listing.status[1]}

\* Row k may stand at position q (counted from 1) of the matching rows put in
\* descending created_at order: fewer than q matching rows are newer, and at
\* least q are as new.
RowAtPosition(k, q) ==
    /\ k \in MatchingRows
    /\ Cardinality({m \in MatchingRows :
            listing.rows[m].created_at > listing.rows[k].created_at}) < q
    /\ Cardinality({m \in MatchingRows :
            listing.rows[m].created_at >= listing.rows[k].created_at}) >= q

\* The page of a listing is the rows at positions (p-1)*s .. p*s-1 (from 0)
\* of the matching rows, newest first, and total counts all matching rows.
PageIsSliceOfMatching ==
    LET first == (listing.page - 1) * listing.page_size
        count == Cardinality(MatchingRows)
    IN  /\ listing.total = count
        /\ Len(listing.out) = IF count > first
                              THEN Min(listing.page_size, count - first) ELSE 0
        /\ \A i \in 1..Len(listing.out) : RowAtPosition(listing.out[i], first + i)
        /\ \A i, j \in 1..Len(listing.out) : i # j => listing.out[i] # listing.out[j]

C27_MissingParamRejected ==
    [][\A has_file_path, has_url \in BOOLEAN :
         /\ (~has_file_path /\ SubmitJob("file_upload", has_file_path))
              => http'.code = 400 /\ job_store' = job_store /\ pc' = pc
         /\ (~has_url /\ SubmitJob("url_scrape", has_url))
              => http'.code = 400 /\ job_store' = job_store /\ pc' = pc]_vars

\* C27 witness: a submission was just answered 400 while the store holds a
\* job whose background task is still queued.
C27_Witness ==
    /\ http.op = "submit" /\ http.code = 400
    /\ \E j \in JobIds : InStore(j) /\ pc[j] = "queued"

\* The query of the fetch, read as SQL: leading blanks and letter case aside.
QueryBeginsWithSelect ==
    \E k \in 1..Len(db_query.query) :
        /\ db_query.query[k] \in {"SELECT", "select"}
        /\ \A i \in 1..k - 1 : db_query.query[i] = " "

QueryNamesForbiddenKeyword ==
    \E k \in 1..Len(db_query.query) : db_query.query[k] \in {"DROP", "update"}

\* C28: in read-only mode a query that does not start with SELECT, or that
\* contains DROP, DELETE, INSERT, UPDATE, TRUNCATE or ALTER, is rejected
\* with a validation error, and no engine has been created.
C28_ReadOnlyRejectsBeforeEngine ==
    (/\ db_query.pos # "input"
     /\ db_query.read_only
     /\ ~QueryBeginsWithSelect \/ QueryNamesForbiddenKeyword)
        => db_query.error = "ValidationError" /\ db_query.engines = 0

\* robots.txt of the fetch, answered with 200, disallows the URL for the
\* adapter's user agent.
RobotsDisallows(url) ==
    /\ scrape.robots.status = "200"
    /\ \E path \in scrape.robots.disallow :
          /\ path # <<>> /\ Len(path) <= Len(url)
          /\ SubSeq(url, 1, Len(path)) = path

ScrapeEnded == scrape.pos \in {"returned", "raised"}

\* A sitemap fetch in which nothing but robots.txt stood in the way: the
\* sitemap was parsed, it names a URL, and no page request failed.
SitemapOnlyRobotsInTheWay ==
    /\ scrape.mode = "sitemap" /\ ScrapeEnded
    /\ scrape.urls # <<>>
    /\ scrape.error \notin {"sitemap", "unexpected"} /\ scrape.page_errors = 0

\* With respect_robots on, a single-URL fetch of a disallowed URL raises.
SingleDisallowedFails ==
    (/\ scrape.mode = "single" /\ ScrapeEnded /\ scrape.respect_robots
     /\ RobotsDisallows(scrape.urls[1]))
        => scrape.pos = "raised" /\ scrape.documents = <<>>

\* With respect_robots on, a sitemap fetch returns no document of a
\* disallowed URL.
SitemapSkipsDisallowed ==
    (scrape.mode = "sitemap" /\ scrape.respect_robots)
        => \A k \in 1..Len(scrape.documents) : ~RobotsDisallows(scrape.documents[k])

\* C29 (as stated): with respect_robots on, a single-URL fetch of a
\* disallowed path fails with an error, while a sitemap fetch skips each
\* disallowed URL and does not fail because of it.
C29_SingleFailsSitemapSkips ==
    /\ SingleDisallowedFails
    /\ SitemapSkipsDisallowed
    /\ (SitemapOnlyRobotsInTheWay /\ scrape.respect_robots) => scrape.pos = "returned"

\* C29 (amended): the same, except that a sitemap fetch whose URLs are all
\* passed over raises "No documents were successfully fetched": with nothing
\* but robots.txt in the way it fails exactly when every URL is disallowed.
C29_SitemapFailsOnlyWhenAllSkipped ==
    /\ SingleDisallowedFails
    /\ SitemapSkipsDisallowed
    /\ (SitemapOnlyRobotsInTheWay /\ scrape.respect_robots) =>
          (scrape.pos = "raised" <=>
              \A k \in 1..Len(scrape.urls) : RobotsDisallows(scrape.urls[k]))

\* C29 witness: a sitemap fetch returned a document although one of its
\* URLs was passed over for robots.txt.
C29_Witness ==
    /\ scrape.mode = "sitemap" /\ scrape.pos = "returned" /\ scrape.respect_robots
    /\ scrape.skipped # {} /\ scrape.documents # <<>>

\* C30: when the request carries X-Correlation-ID, the response header
\* echoes that value and the job created by the request stores the same
\* value as its correlation_id.
C30_CorrelationIdEchoedAndStored ==
    (trace.pos = "responded" /\ trace.header # None /\ trace.header # Some(""))
        => /\ trace.response = trace.header
           /\ trace.job # None => trace.job = trace.header

C32_ChunkOffsetsAndTokens ==
    \A k \in 1..Len(chunk_call.out) :
        /\ 0 <= chunk_call.out[k].start_char
        /\ chunk_call.out[k].start_char < chunk_call.out[k].end_char
        /\ chunk_call.out[k].token_count >= 1

\* C32 witness: the stage returned two chunks or more.
C32_Witness == chunk_call.pos = "returned" /\ Len(chunk_call.out) >= 2

\* C33: for a document with non-empty text, the chunk stage of a job that
\* completes returns at least one chunk, so that chunks_created >= 1.
C33_NonEmptyDocumentGivesChunk ==
    (chunk_call.pos = "returned" /\ chunk_call.config = DefaultChunkConfig)
        => Len(chunk_call.out) >= 1

\* C35: the chunk stage does not raise for a document with non-empty
\* content, whatever the size of its first paragraph.
C35_ChunkStageNeverRaises == chunk_call.pos # "raised"

\* C34: inside one execution of the Embed stage at most one request to the
\* embedding provider is in flight at any time, and a request is sent only
\* when the one before it has been answered: the requests of batch k + 1
\* come after every request of batch k, its retries included.
C34_OneProviderCallInFlight ==
    /\ provider.in_flight <= 1
    /\ \A k \in 2..Len(provider.log) :
          provider.log[k].kind = "request" =>
              /\ provider.log[k - 1].kind = "answer"
              /\ provider.log[k - 1].batch <= provider.log[k].batch

\* a second batch is requested after the first one needed a retry
C34_Witness ==
    /\ provider.in_flight = 1
    /\ \E k \in 1..Len(provider.log) :
          provider.log[k].batch = 1 /\ provider.log[k].attempt = 2
    /\ provider.log[Len(provider.log)].batch = 2

\* C36: the Clean stage does not fail and returns exactly one cleaned
\* document per input document, in input order; a document whose cleaned
\* content is shorter than min_content_length is kept, not dropped.
C36_CleanKeepsEveryDocument ==
    /\ clean_call.pos # "raised"
    /\ clean_call.pos = "returned" =>
          /\ Len(clean_call.out) = Len(clean_call.documents)
          /\ \A k \in 1..Len(clean_call.out) :
                clean_call.out[k].id = clean_call.documents[k].id

\* C37: within one job the URL-scrape adapter requests no page URL more than
\* once, whether the sitemap lists it several times or the fetch is retried.
C37_NoPageFetchedTwice ==
    \A a, b \in 1..Len(crawl.requested) :
        crawl.requested[a] = crawl.requested[b] => a = b

\* C38: two HTTP requests that one URL-scrape adapter sends to the same host
\* one after the other (for a page, a sitemap or robots.txt) are at least
\* rate_limit_delay seconds apart.
C38_RequestsToAHostAreSpaced ==
    \A a, b \in 1..Len(limiter.requests) :
        (a < b /\ limiter.requests[a].host = limiter.requests[b].host) =>
            limiter.requests[b].time - limiter.requests[a].time >= limiter.rate_limit_delay

\* C39: in hybrid chunking with an overlap, the chunk started after a split
\* for reason token_limit begins with exactly the last ceil(n / 4) sentences
\* of the chunk of n sentences just saved.
C39_HybridOverlapIsLastQuarter ==
    \A k \in 1..Len(hybrid.flushes) :
        LET f == hybrid.flushes[k]
            n == Len(f.flushed)
            quarter == (n + 3) \div 4
        IN  (f.split_reason = "token_limit" /\ hybrid.overlap > 0) =>
                f.started = SubSeq(f.flushed, n - quarter + 1, n)

====
